---- MODULE Spec2Model ----
(***************************************************************************)
(* Real-time market-data ingestion core of daybot-mcp:                     *)
(*   MarketDataManager        (daybot_mcp/websocket_client.py)             *)
(*   AlpacaWebSocketClient    (daybot_mcp/websocket_client.py)             *)
(*   PolygonWebSocketClient   (daybot_mcp/polygon_client.py)               *)
(*   RedundantDataService     (daybot_mcp/polygon_client.py)               *)
(* Time is counted in whole seconds; canonical timestamps and latencies    *)
(* are in milliseconds; prices are in cents.                               *)
(***************************************************************************)
EXTENDS Integers, Sequences, FiniteSets, TLC

\* ------------------------------------------------------------------ bounds
MaxTime == 8
MaxUptime == 2
MaxStarts == 1
MaxRestarts == 2
MaxStops == 1
MaxMsgs == 2
MaxRegistrations == 2
MaxArrivals == 2
MaxSubscribes == 3
MaxDisconnects == 2
MaxListens == 1
MaxProbes == 1
MaxCalls == 4

\* ------------------------------------------------------- program constants
failover_timeout == 5
MaxLatencySamples == 1000

Adapters == {"alpaca", "polygon"}
Symbols == {"AAPL", "TSLA"}
None == [none |-> TRUE]

Other(a) == IF a = "alpaca" THEN "polygon" ELSE "alpaca"

\* the start() calls of a run, which number the sockets and the tasks
Calls == 1..(IF MaxStarts > MaxRestarts THEN MaxStarts ELSE MaxRestarts)

VARIABLES
    \* clock
    now,
    \* MarketDataManager
    latest_quotes, latest_trades, latest_bars,
    message_count, dm_last_message_time, latency_samples,
    quote_callbacks, trade_callbacks, bar_callbacks, order_callbacks,
    \* the consumers: every invocation of a registered callback, in order
    invocations,
    \* the two adapters
    running, websocket, ws_state, subscribed_symbols,
    sent_frames, subscribe_calls, listen_tasks,
    \* the frames each adapter's socket has received and not yet handed on
    inbox,
    \* RedundantDataService
    alpaca_connected, polygon_connected, primary_source,
    last_message_time, monitoring_task, monitors,
    \* the caller of start()/stop()
    start_pc, start_symbols, start_result, start_entry, starts,
    stop_pc, stops,
    \* observation
    ghost_latest, last_ingest_time, failover_invoked, stale_flips,
    alpaca_stopped_at, ghost_source, replaced_across,
    expected_calls, arrivals, handled_seq, malformed_at,
    \* observation of the direct calls of subscribe_symbols
    subscribe_log,
    \* observation of the direct calls of disconnect
    disconnects,
    \* the last query of a consumer and what it returned
    query_result,
    \* every latency sample recorded by a direct call, oldest first
    all_samples

dmVars == <<latest_quotes, latest_trades, latest_bars,
            message_count, dm_last_message_time, latency_samples,
            quote_callbacks, trade_callbacks, bar_callbacks, order_callbacks,
            invocations>>
adVars == <<running, websocket, ws_state, subscribed_symbols,
            sent_frames, subscribe_calls, listen_tasks, inbox>>
svcVars == <<alpaca_connected, polygon_connected, primary_source,
             last_message_time, monitoring_task, monitors>>
callVars == <<start_pc, start_symbols, start_result, start_entry, starts,
              stop_pc, stops>>
\* observation of the frames: the invocations the ingests so far call for,
\* the frames each socket received, the frames each adapter handled, and
\* the number of the first malformed frame it handled
callObs == <<disconnects, query_result, all_samples>>
frameObs == <<expected_calls, arrivals, handled_seq, malformed_at,
              subscribe_log, callObs>>
obsVars == <<ghost_latest, last_ingest_time, failover_invoked, stale_flips,
             alpaca_stopped_at, ghost_source, replaced_across, frameObs>>
vars == <<now, dmVars, adVars, svcVars, callVars, obsVars>>

\* ------------------------------------------------------------ wire frames
\* Vendor A (Alpaca): one JSON object per frame, tagged by "T"; "t" is an
\* ISO-8601 string, modelled as [iso |-> seconds].
AlpacaQuoteFrame(s, b, t) ==
    [T |-> "q", S |-> s, bp |-> b, ap |-> b + 2, bs |-> 1, as |-> 1,
     t |-> [iso |-> t]]
AlpacaTradeFrame(s, p, t) ==
    [T |-> "t", S |-> s, p |-> p, s |-> 1, t |-> [iso |-> t]]
AlpacaBarFrame(s, p, t) ==
    [T |-> "b", S |-> s, o |-> p, h |-> p, l |-> p, c |-> p, v |-> 1,
     t |-> [iso |-> t]]
\* a quote frame that lacks its "bp" field
AlpacaBadQuoteFrame(s, t) ==
    [T |-> "q", S |-> s, ap |-> 102, bs |-> 1, as |-> 1, t |-> [iso |-> t]]
AlpacaStatusFrame == [T |-> "subscription"]
\* a trade_updates frame of the order stream
AlpacaOrderFrame(s, t) ==
    [T |-> "trade_updates", event |-> "fill", timestamp |-> [iso |-> t],
     order |-> [id |-> "o1", symbol |-> s, side |-> "buy", qty |-> 1,
                status |-> "filled"]]
\* a quote frame whose "bp" does not convert to a number
AlpacaIllTypedQuoteFrame(s, t) ==
    [T |-> "q", S |-> s, bp |-> 100, ap |-> 102, bs |-> 1, as |-> 1,
     t |-> [iso |-> t], ill_typed |-> {"bp"}]
\* text that is not JSON, and JSON whose top level is not of the shape the
\* vendor's handler indexes
InvalidJson == [malformed |-> "invalid_json"]
WrongShape == [malformed |-> "wrong_shape"]

\* Vendor B (Polygon): a JSON array of events tagged by "ev"; "t" and "s"
\* are epoch milliseconds.
PolygonQuoteEvent(s, b, t) ==
    [ev |-> "Q", sym |-> s, bp |-> b, ap |-> b + 2, bs |-> 1, as |-> 1,
     t |-> t * 1000]
PolygonTradeEvent(s, p, t) ==
    [ev |-> "T", sym |-> s, p |-> p, s |-> 1, t |-> t * 1000]
PolygonBarEvent(s, p, t) ==
    [ev |-> "AM", sym |-> s, o |-> p, h |-> p, l |-> p, c |-> p, v |-> 1,
     s |-> t * 1000]
PolygonBadQuoteEvent(s, t) ==
    [ev |-> "Q", sym |-> s, ap |-> 102, bs |-> 1, as |-> 1, t |-> t * 1000]
PolygonStatusEvent == [ev |-> "status"]
\* a quote event whose "bp" is null
PolygonNullQuoteEvent(s, t) ==
    [ev |-> "Q", sym |-> s, bp |-> 0, ap |-> 102, bs |-> 1, as |-> 1,
     t |-> t * 1000, wrong_type |-> {"bp"}]

Has(data, fields) == fields \subseteq DOMAIN data

\* float(...) / int(...) of the fields succeed
Converts(data, fields) ==
    "ill_typed" \notin DOMAIN data \/ data.ill_typed \cap fields = {}

\* neither KeyError nor ValueError
Parses(data, fields) == Has(data, fields) /\ Converts(data, fields)

\* float(...) / int(...) of a field that is null or not a number or text
\* raises TypeError, which the parsers do not catch (the events of the
\* model that carry such a field carry every field)
Throws(data, fields) ==
    /\ Has(data, fields)
    /\ "wrong_type" \in DOMAIN data
    /\ data.wrong_type \cap fields # {}

\* ------------------------------------------------- vendor frame parsing
\* datetime.fromisoformat(...) of vendor A, as epoch milliseconds
FromIsoFormat(t) == t.iso * 1000
\* datetime.fromtimestamp(ms / 1000) of vendor B, as epoch milliseconds
FromTimestamp(ms) == (ms \div 1000) * 1000 + (ms % 1000)

_parse_quote(data) ==
    IF Parses(data, {"S", "bp", "ap", "bs", "as", "t"})
    THEN [symbol |-> data.S, bid_price |-> data.bp, ask_price |-> data.ap,
          bid_size |-> data.bs, ask_size |-> data.as,
          timestamp |-> FromIsoFormat(data.t)]
    ELSE None

_parse_trade(data) ==
    IF Parses(data, {"S", "p", "s", "t"})
    THEN [symbol |-> data.S, price |-> data.p, size |-> data.s,
          timestamp |-> FromIsoFormat(data.t)]
    ELSE None

_parse_bar(data) ==
    IF Parses(data, {"S", "o", "h", "l", "c", "v", "t"})
    THEN [symbol |-> data.S, open |-> data.o, high |-> data.h,
          low |-> data.l, close |-> data.c, volume |-> data.v,
          timestamp |-> FromIsoFormat(data.t)]
    ELSE None

_parse_order_update(data) ==
    LET order_data == IF "order" \in DOMAIN data THEN data.order
                      ELSE [empty |-> TRUE]
    IN IF /\ Has(order_data, {"id", "symbol", "side", "qty", "status"})
          /\ Has(data, {"timestamp"})
       THEN [order_id |-> order_data.id, symbol |-> order_data.symbol,
             side |-> order_data.side, qty |-> order_data.qty,
             status |-> order_data.status,
             event |-> IF "event" \in DOMAIN data THEN data.event ELSE "",
             timestamp |-> FromIsoFormat(data.timestamp)]
       ELSE None

_parse_polygon_quote(data) ==
    IF Parses(data, {"sym", "bp", "ap", "bs", "as", "t"})
    THEN [symbol |-> data.sym, bid_price |-> data.bp, ask_price |-> data.ap,
          bid_size |-> data.bs, ask_size |-> data.as,
          timestamp |-> FromTimestamp(data.t)]
    ELSE None

_parse_polygon_trade(data) ==
    IF Parses(data, {"sym", "p", "s", "t"})
    THEN [symbol |-> data.sym, price |-> data.p, size |-> data.s,
          timestamp |-> FromTimestamp(data.t)]
    ELSE None

_parse_polygon_bar(data) ==
    IF Parses(data, {"sym", "o", "h", "l", "c", "v", "s"})
    THEN [symbol |-> data.sym, open |-> data.o, high |-> data.h,
          low |-> data.l, close |-> data.c, volume |-> data.v,
          timestamp |-> FromTimestamp(data.s)]
    ELSE None

\* --------------------------------------------------- MarketDataManager
\* Quote.mid_price; the model's bid and ask always have an even sum
mid_price(q) == (q.bid_price + q.ask_price) \div 2

\* The state of the manager as one record, so that the handlers compose.
DM == [latest_quotes |-> latest_quotes, latest_trades |-> latest_trades,
       latest_bars |-> latest_bars, message_count |-> message_count,
       last_message_time |-> dm_last_message_time,
       latency_samples |-> latency_samples,
       quote_callbacks |-> quote_callbacks,
       trade_callbacks |-> trade_callbacks,
       bar_callbacks |-> bar_callbacks,
       order_callbacks |-> order_callbacks,
       invocations |-> invocations,
       \* an exception on its way out of the handler that is running
       escaped |-> FALSE]

SetDM(dm) ==
    /\ latest_quotes' = dm.latest_quotes
    /\ latest_trades' = dm.latest_trades
    /\ latest_bars' = dm.latest_bars
    /\ message_count' = dm.message_count
    /\ dm_last_message_time' = dm.last_message_time
    /\ latency_samples' = dm.latency_samples
    /\ quote_callbacks' = dm.quote_callbacks
    /\ trade_callbacks' = dm.trade_callbacks
    /\ bar_callbacks' = dm.bar_callbacks
    /\ order_callbacks' = dm.order_callbacks
    /\ invocations' = dm.invocations

\* The consumers' callbacks: one that returns and one that raises an
\* Exception whenever it is called.
Callbacks == {"on_value", "on_value_raising"}
Raises(callback) == callback = "on_value_raising"

\* subscribe_quotes / subscribe_trades / subscribe_bars / subscribe_orders
subscribe_quotes(dm, symbol, callback) ==
    [dm EXCEPT !.quote_callbacks[symbol] = Append(@, callback)]
subscribe_trades(dm, symbol, callback) ==
    [dm EXCEPT !.trade_callbacks[symbol] = Append(@, callback)]
subscribe_bars(dm, symbol, callback) ==
    [dm EXCEPT !.bar_callbacks[symbol] = Append(@, callback)]
subscribe_orders(dm, callback) ==
    [dm EXCEPT !.order_callbacks = Append(@, callback)]

\* callback(value): what the consumer was handed, what the cache returned
\* for the value's symbol at that moment, and whether the callback raised
Invocation(callback, stream, value, seen) ==
    [cb |-> callback, stream |-> stream, value |-> value, seen |-> seen,
     raised |-> Raises(callback)]

\* a faulty variant: no try/except around the callback
RECURSIVE Dispatch_unguarded(_, _, _, _, _)
Dispatch_unguarded(dm, callbacks, stream, value, seen) ==
    IF callbacks = <<>> THEN dm
    ELSE LET called == [dm EXCEPT !.invocations =
                           Append(@, Invocation(Head(callbacks), stream,
                                                value, seen))]
         IN IF Raises(Head(callbacks))
            THEN [called EXCEPT !.escaped = TRUE]
            ELSE Dispatch_unguarded(called, Tail(callbacks), stream, value,
                                    seen)

\* "for callback in ...: try: callback(value) except Exception: log"
RECURSIVE Dispatch(_, _, _, _, _)
Dispatch(dm, callbacks, stream, value, seen) ==
    IF callbacks = <<>> THEN dm
    ELSE Dispatch([dm EXCEPT !.invocations =
                      Append(@, Invocation(Head(callbacks), stream, value,
                                           seen))],
                  Tail(callbacks), stream, value, seen)

\* a faulty variant: a cached quote with a newer vendor timestamp is kept
_handle_quote_keep_newer(dm, quote) ==
    IF /\ dm.latest_quotes[quote.symbol] # None
       /\ dm.latest_quotes[quote.symbol].timestamp > quote.timestamp
    THEN Dispatch(dm, dm.quote_callbacks[quote.symbol], "quote", quote,
                  dm.latest_quotes[quote.symbol])
    ELSE LET d == [dm EXCEPT !.latest_quotes[quote.symbol] = quote]
         IN Dispatch(d, d.quote_callbacks[quote.symbol], "quote", quote,
                     d.latest_quotes[quote.symbol])

\* a faulty variant: the quote is cached and no callback is called
_handle_quote_cache_only(dm, quote) ==
    [dm EXCEPT !.latest_quotes[quote.symbol] = quote]

_handle_quote(dm, quote) ==
    LET d == [dm EXCEPT !.latest_quotes[quote.symbol] = quote]
    IN Dispatch(d, d.quote_callbacks[quote.symbol], "quote", quote,
                d.latest_quotes[quote.symbol])

\* a faulty variant: the callbacks are called before the cache is replaced
_handle_trade_dispatch_first(dm, trade) ==
    LET d == Dispatch(dm, dm.trade_callbacks[trade.symbol], "trade", trade,
                      dm.latest_trades[trade.symbol])
    IN [d EXCEPT !.latest_trades[trade.symbol] = trade]

\* a faulty variant: the callbacks of every symbol are called
_handle_trade_broadcast(dm, trade) ==
    LET d == [dm EXCEPT !.latest_trades[trade.symbol] = trade]
    IN Dispatch(d, d.trade_callbacks["AAPL"] \o d.trade_callbacks["TSLA"],
                "trade", trade, d.latest_trades[trade.symbol])

_handle_trade(dm, trade) ==
    LET d == [dm EXCEPT !.latest_trades[trade.symbol] = trade]
    IN Dispatch(d, d.trade_callbacks[trade.symbol], "trade", trade,
                d.latest_trades[trade.symbol])

_handle_bar(dm, bar) ==
    LET d == [dm EXCEPT !.latest_bars[bar.symbol] = bar]
    IN Dispatch(d, d.bar_callbacks[bar.symbol], "bar", bar,
                d.latest_bars[bar.symbol])

\* no cache for order updates: the callbacks see the value only
_handle_order_update(dm, order_update) ==
    Dispatch(dm, dm.order_callbacks, "order", order_update, order_update)

\* a faulty variant: on overflow the newest sample is the one removed
update_latency_metrics_drop_newest(dm, message_timestamp, t) ==
    LET latency == t * 1000 - message_timestamp
        appended == Append(dm.latency_samples, latency)
    IN [dm EXCEPT
          !.latency_samples = IF Len(appended) > MaxLatencySamples
                              THEN dm.latency_samples ELSE appended,
          !.message_count = @ + 1,
          !.last_message_time = t]

update_latency_metrics(dm, message_timestamp, t) ==
    LET latency == t * 1000 - message_timestamp
        appended == Append(dm.latency_samples, latency)
    IN [dm EXCEPT
          !.latency_samples = IF Len(appended) > MaxLatencySamples
                              THEN Tail(appended) ELSE appended,
          !.message_count = @ + 1,
          !.last_message_time = t]

\* sum(), min() and max() of a list of samples
RECURSIVE SumOf(_)
SumOf(samples) ==
    IF samples = <<>> THEN 0
    ELSE IF Len(samples) = 1 THEN samples[1]
    ELSE LET half == Len(samples) \div 2
         IN SumOf(SubSeq(samples, 1, half))
            + SumOf(SubSeq(samples, half + 1, Len(samples)))

MinOf(samples) ==
    CHOOSE x \in {samples[k] : k \in DOMAIN samples} :
        \A k \in DOMAIN samples : x <= samples[k]

MaxOf(samples) ==
    CHOOSE x \in {samples[k] : k \in DOMAIN samples} :
        \A k \in DOMAIN samples : x >= samples[k]

\* get_latency_stats() at time t; the quotients are rounded down to whole
\* milliseconds and whole messages
get_latency_stats(dm, t) ==
    IF dm.latency_samples = <<>>
    THEN [avg_latency_ms |-> 0, min_latency_ms |-> 0, max_latency_ms |-> 0]
    ELSE LET span == t - dm.last_message_time + 60
         IN [avg_latency_ms |->
                 SumOf(dm.latency_samples) \div Len(dm.latency_samples),
             min_latency_ms |-> MinOf(dm.latency_samples),
             max_latency_ms |-> MaxOf(dm.latency_samples),
             message_count |-> dm.message_count,
             messages_per_second |->
                 dm.message_count \div (IF span > 1 THEN span ELSE 1)]

\* a faulty variant: the cache is indexed, and a missing key raises
get_latest_trade_indexed(dm, symbol) ==
    IF dm.latest_trades[symbol] = None THEN [raised |-> "KeyError"]
    ELSE dm.latest_trades[symbol]

get_latest_quote(dm, symbol) == dm.latest_quotes[symbol]
get_latest_trade(dm, symbol) == dm.latest_trades[symbol]
get_latest_bar(dm, symbol) == dm.latest_bars[symbol]

\* ------------------------------------------------- adapters and service
\* The adapters' and the coordinator's state as one record, so that the
\* steps of start() and stop() compose.
SV == [running |-> running, websocket |-> websocket, ws_state |-> ws_state,
       subscribed_symbols |-> subscribed_symbols,
       sent_frames |-> sent_frames, subscribe_calls |-> subscribe_calls,
       listen_tasks |-> listen_tasks, inbox |-> inbox,
       alpaca_connected |-> alpaca_connected,
       polygon_connected |-> polygon_connected,
       monitoring_task |-> monitoring_task, monitors |-> monitors,
       start_pc |-> start_pc, start_result |-> start_result,
       stop_pc |-> stop_pc]

SetSV(S) ==
    /\ running' = S.running
    /\ websocket' = S.websocket
    /\ ws_state' = S.ws_state
    /\ subscribed_symbols' = S.subscribed_symbols
    /\ sent_frames' = S.sent_frames
    /\ subscribe_calls' = S.subscribe_calls
    /\ listen_tasks' = S.listen_tasks
    /\ inbox' = S.inbox
    /\ alpaca_connected' = S.alpaca_connected
    /\ polygon_connected' = S.polygon_connected
    /\ monitoring_task' = S.monitoring_task
    /\ monitors' = S.monitors
    /\ start_pc' = S.start_pc
    /\ start_result' = S.start_result
    /\ stop_pc' = S.stop_pc
    /\ alpaca_stopped_at' =
         IF S.running["alpaca"] THEN 0
         ELSE IF running["alpaca"] THEN now
         ELSE alpaca_stopped_at

\* asyncio runs a task's first step as soon as its creator suspends, before
\* any awaited I/O completes and before any timer fires
ListenPending ==
    \E a \in Adapters : \E i \in DOMAIN listen_tasks[a] :
        listen_tasks[a][i].st = "created"

Pending ==
    ListenPending \/ \E m \in DOMAIN monitors : monitors[m].st = "created"

ConnectOutcomes == {"ok", "auth_rejected", "socket_error"}
SendOutcomes == {"sent", "send_error"}

\* connect_market_data() / connect(): socket `gen` is opened unless the
\* socket itself fails; running is set only on a success acknowledgement.
AdapterConnect(S, a, outcome, gen) ==
    IF outcome = "socket_error" THEN S
    ELSE [S EXCEPT !.websocket[a] = gen,
                   !.ws_state[a][gen] = "open",
                   !.running[a] = IF outcome = "ok" THEN TRUE ELSE @]

ConnectResult(outcome) == outcome = "ok"

\* a faulty variant: the guard looks at the socket only
SubscribeGuard_socket_only(S, a) == S.websocket[a] # 0

\* subscribe_symbols(): the guard on entry
SubscribeGuard(S, a) == S.websocket[a] # 0 /\ S.running[a]

\* a faulty variant: the tracked set is replaced by the symbols of the call
SubscribeSend_replacing(S, a, symbols, outcome) ==
    IF outcome = "sent" /\ S.ws_state[a][S.websocket[a]] = "open"
    THEN [S EXCEPT !.sent_frames[a] = @ + 1,
                   !.subscribed_symbols[a] = symbols]
    ELSE S

\* subscribe_symbols(): after the awaited send
SubscribeSend(S, a, symbols, outcome) ==
    IF outcome = "sent" /\ S.ws_state[a][S.websocket[a]] = "open"
    THEN [S EXCEPT !.sent_frames[a] = @ + 1,
                   !.subscribed_symbols[a] = @ \cup symbols]
    ELSE S

\* subscribe_symbols(): the value it returns
SubscribeResult(S, a, outcome) ==
    /\ SubscribeGuard(S, a)
    /\ outcome = "sent"
    /\ S.ws_state[a][S.websocket[a]] = "open"

\* websocket.send(): raises ConnectionClosed unless the socket is open
SendOutcome(S, a) ==
    IF S.websocket[a] # 0 /\ S.ws_state[a][S.websocket[a]] = "open"
    THEN "sent" ELSE "send_error"

\* an adapter whose socket is open and authenticated
Connected(S, a) ==
    /\ S.websocket[a] # 0
    /\ S.ws_state[a][S.websocket[a]] = "open"
    /\ S.running[a]

\* the record of the direct disconnect calls of an adapter: their number,
\* the socket of the last one and whether it left the adapter as it was
NoDisconnects == [calls |-> 0, ws |-> 0, unchanged |-> FALSE]

\* the record of the direct subscribe calls of an adapter whose tracked
\* set is `symbols`
NoSubscribes(symbols) ==
    [union |-> symbols,
     last |-> [symbols |-> {}, connected |-> FALSE, running |-> FALSE,
               result |-> FALSE,
               before |-> symbols, sent_before |-> 0]]

\* a faulty variant: a listen task for each adapter, connected or not
SpawnTasks_unconditional(S, t) ==
    [S EXCEPT
       !.listen_tasks =
           [a \in Adapters |-> Append(@[a], [ws |-> 0, st |-> "created"])],
       !.monitors = Append(@, [st |-> "created", wake |-> t]),
       !.monitoring_task = Len(S.monitors) + 1,
       !.start_pc = "idle",
       !.start_result = "ok"]

\* start(): "Start listeners" and "Start connection monitoring"
SpawnTasks(S, t) ==
    LET spawn(a, was) == IF was THEN Append(S.listen_tasks[a],
                                            [ws |-> 0, st |-> "created"])
                         ELSE S.listen_tasks[a]
    IN [S EXCEPT
          !.listen_tasks =
              [a \in Adapters |->
                 spawn(a, IF a = "alpaca" THEN S.alpaca_connected
                                          ELSE S.polygon_connected)],
          !.monitors = Append(@, [st |-> "created", wake |-> t]),
          !.monitoring_task = Len(S.monitors) + 1,
          !.start_pc = "idle",
          !.start_result = "ok"]

\* start(): the polygon subscription, then the spawning of the tasks
StartFromPolygonSubscribe(S, t) ==
    IF S.polygon_connected
    THEN LET C == [S EXCEPT !.subscribe_calls["polygon"] = @ + 1]
         IN IF SubscribeGuard(C, "polygon")
            THEN [C EXCEPT !.start_pc = "subscribe_polygon"]
            ELSE SpawnTasks(C, t)
    ELSE SpawnTasks(S, t)

\* start(): the alpaca subscription and what follows it
StartFromAlpacaSubscribe(S, t) ==
    IF S.alpaca_connected
    THEN LET C == [S EXCEPT !.subscribe_calls["alpaca"] = @ + 1]
         IN IF SubscribeGuard(C, "alpaca")
            THEN [C EXCEPT !.start_pc = "subscribe_alpaca"]
            ELSE StartFromPolygonSubscribe(C, t)
    ELSE StartFromPolygonSubscribe(S, t)

\* a faulty variant: no check that a feed connected
StartAfterConnects_unchecked(S, t) ==
    StartFromAlpacaSubscribe(S, t)

\* start(): after both connects returned
StartAfterConnects(S, t) ==
    IF ~S.alpaca_connected /\ ~S.polygon_connected
    THEN [S EXCEPT !.start_pc = "idle", !.start_result = "raised"]
    ELSE StartFromAlpacaSubscribe(S, t)

Entry(S) ==
    [sent |-> S.sent_frames, calls |-> S.subscribe_calls,
     listen |-> [a \in Adapters |-> Len(S.listen_tasks[a])],
     mon |-> Len(S.monitors)]

StartCall(symbols, limit) ==
    /\ start_pc = "idle" /\ stop_pc = "idle" /\ starts < limit
    /\ starts' = starts + 1
    /\ start_symbols' = symbols
    /\ start_entry' = Entry(SV)
    /\ SetSV([SV EXCEPT !.start_pc = "connect_alpaca",
                        !.start_result = "running"])
    /\ UNCHANGED <<now, dmVars, primary_source, last_message_time, stops,
                   ghost_latest, last_ingest_time, failover_invoked,
                   stale_flips, ghost_source, replaced_across, frameObs>>

StartConnectAlpaca(outcome) ==
    /\ start_pc = "connect_alpaca" /\ ~Pending
    /\ SetSV([AdapterConnect(SV, "alpaca", outcome, starts) EXCEPT
                !.alpaca_connected = ConnectResult(outcome),
                !.start_pc = "connect_polygon"])
    /\ UNCHANGED <<now, dmVars, primary_source, last_message_time,
                   start_symbols, start_entry, starts, stops,
                   ghost_latest, last_ingest_time, failover_invoked,
                   stale_flips, ghost_source, replaced_across, frameObs>>

StartConnectPolygon(outcome) ==
    /\ start_pc = "connect_polygon" /\ ~Pending
    /\ SetSV(StartAfterConnects(
               [AdapterConnect(SV, "polygon", outcome, starts) EXCEPT
                  !.polygon_connected = ConnectResult(outcome)], now))
    /\ UNCHANGED <<now, dmVars, primary_source, last_message_time,
                   start_symbols, start_entry, starts, stops,
                   ghost_latest, last_ingest_time, failover_invoked,
                   stale_flips, ghost_source, replaced_across, frameObs>>

StartSubscribeAlpaca(outcome) ==
    /\ start_pc = "subscribe_alpaca" /\ ~Pending
    /\ SetSV(StartFromPolygonSubscribe(
               SubscribeSend(SV, "alpaca", start_symbols, outcome), now))
    /\ UNCHANGED <<now, dmVars, primary_source, last_message_time,
                   start_symbols, start_entry, starts, stops,
                   ghost_latest, last_ingest_time, failover_invoked,
                   stale_flips, ghost_source, replaced_across, frameObs>>

StartSubscribePolygon(outcome) ==
    /\ start_pc = "subscribe_polygon" /\ ~Pending
    /\ SetSV(SpawnTasks(
               SubscribeSend(SV, "polygon", start_symbols, outcome), now))
    /\ UNCHANGED <<now, dmVars, primary_source, last_message_time,
                   start_symbols, start_entry, starts, stops,
                   ghost_latest, last_ingest_time, failover_invoked,
                   stale_flips, ghost_source, replaced_across, frameObs>>

\* listen(): the tasks of adapter a iterating over socket g leave their
\* loop when it closes: normally ("closed_ok", running is left as it is)
\* or by ConnectionClosed ("closed_error", running is cleared); the frames
\* the socket received before are handed on first
ListenLeave(S, a, g, how) ==
    LET on(i) == /\ S.listen_tasks[a][i].st = "listening"
                 /\ S.listen_tasks[a][i].ws = g
                 /\ S.inbox[a] = <<>>
    IN [S EXCEPT
          !.listen_tasks[a] =
              [i \in DOMAIN @ |-> IF on(i) THEN [@[i] EXCEPT !.st = "done"]
                                  ELSE @[i]],
          !.running[a] =
              IF how = "closed_error"
                 /\ \E i \in DOMAIN S.listen_tasks[a] : on(i)
              THEN FALSE ELSE @]

\* a faulty variant: the socket is closed, the running flag is left
disconnect_keep_running(S, a) ==
    LET g == S.websocket[a]
    IN IF g # 0 /\ S.ws_state[a][g] = "open"
       THEN ListenLeave([S EXCEPT !.ws_state[a][g] = "closed_ok"],
                        a, g, "closed_ok")
       ELSE S

\* disconnect(): clears running, closes the socket if there is one
disconnect(S, a) ==
    LET g == S.websocket[a]
        R == [S EXCEPT !.running[a] = FALSE]
    IN IF g # 0 /\ S.ws_state[a][g] = "open"
       THEN ListenLeave([R EXCEPT !.ws_state[a][g] = "closed_ok"],
                        a, g, "closed_ok")
       ELSE R

\* stop(): the polygon disconnect and the return
StopFromPolygon(S) ==
    IF S.polygon_connected
    THEN [disconnect(S, "polygon") EXCEPT
            !.stop_pc = IF S.websocket["polygon"] # 0
                        THEN "closing_polygon" ELSE "idle"]
    ELSE [S EXCEPT !.stop_pc = "idle"]

\* stop(): the alpaca disconnect and what follows it
StopFromAlpaca(S) ==
    IF S.alpaca_connected
    THEN IF S.websocket["alpaca"] # 0
         THEN [disconnect(S, "alpaca") EXCEPT !.stop_pc = "closing_alpaca"]
         ELSE StopFromPolygon(disconnect(S, "alpaca"))
    ELSE StopFromPolygon(S)

\* stop(): monitoring_task.cancel()
CancelMonitor(S) ==
    IF S.monitoring_task # 0
    THEN [S EXCEPT !.monitors[S.monitoring_task].st = "cancelled"]
    ELSE S

\* a faulty variant: stop() empties the latest-value caches
StopCall_clearing ==
    /\ start_pc = "idle" /\ stop_pc = "idle" /\ stops < MaxStops
    /\ stops' = stops + 1
    /\ SetSV(StopFromAlpaca(CancelMonitor(SV)))
    /\ latest_quotes' = [s \in Symbols |-> None]
    /\ latest_trades' = [s \in Symbols |-> None]
    /\ latest_bars' = [s \in Symbols |-> None]
    /\ UNCHANGED <<now, message_count, dm_last_message_time,
                   latency_samples, quote_callbacks, trade_callbacks,
                   bar_callbacks, order_callbacks, invocations,
                   primary_source, last_message_time,
                   start_symbols, start_entry, starts,
                   ghost_latest, last_ingest_time, failover_invoked,
                   stale_flips, ghost_source, replaced_across, frameObs>>

StopCall ==
    /\ start_pc = "idle" /\ stop_pc = "idle" /\ stops < MaxStops
    /\ stops' = stops + 1
    /\ SetSV(StopFromAlpaca(CancelMonitor(SV)))
    /\ UNCHANGED <<now, dmVars, primary_source, last_message_time,
                   start_symbols, start_entry, starts,
                   ghost_latest, last_ingest_time, failover_invoked,
                   stale_flips, ghost_source, replaced_across, frameObs>>

StopClosedAlpaca ==
    /\ stop_pc = "closing_alpaca" /\ ~Pending
    /\ SetSV(StopFromPolygon(SV))
    /\ UNCHANGED <<now, dmVars, primary_source, last_message_time,
                   start_symbols, start_entry, starts, stops,
                   ghost_latest, last_ingest_time, failover_invoked,
                   stale_flips, ghost_source, replaced_across, frameObs>>

StopClosedPolygon ==
    /\ stop_pc = "closing_polygon" /\ ~Pending
    /\ SetSV([SV EXCEPT !.stop_pc = "idle"])
    /\ UNCHANGED <<now, dmVars, primary_source, last_message_time,
                   start_symbols, start_entry, starts, stops,
                   ghost_latest, last_ingest_time, failover_invoked,
                   stale_flips, ghost_source, replaced_across, frameObs>>

\* ------------------------------------------------------------- listen()
\* listen(): the guard on entry, then the loop over the adapter's socket,
\* which ends at once on a socket that is closed already
ListenEnter(S, a, i) ==
    LET g == S.websocket[a]
    IN IF g # 0 /\ S.running[a]
       THEN LET L == [S EXCEPT !.listen_tasks[a][i] =
                                   [ws |-> g, st |-> "listening"]]
            IN IF S.ws_state[a][g] = "open" THEN L
               ELSE ListenLeave(L, a, g, S.ws_state[a][g])
       ELSE [S EXCEPT !.listen_tasks[a][i].st = "done"]

ListenBegin(a, i) ==
    /\ i \in DOMAIN listen_tasks[a]
    /\ listen_tasks[a][i].st = "created"
    /\ SetSV(ListenEnter(SV, a, i))
    /\ UNCHANGED <<now, dmVars, primary_source, last_message_time,
                   start_symbols, start_entry, starts, stops,
                   ghost_latest, last_ingest_time, failover_invoked,
                   stale_flips, ghost_source, replaced_across, frameObs>>

\* the peer closes socket g of adapter a, normally or abnormally
PeerClose(a, g, how) ==
    /\ ws_state[a][g] = "open" /\ ~Pending
    /\ SetSV(ListenLeave([SV EXCEPT !.ws_state[a][g] = how], a, g, how))
    /\ UNCHANGED <<now, dmVars, primary_source, last_message_time,
                   start_symbols, start_entry, starts, stops,
                   ghost_latest, last_ingest_time, failover_invoked,
                   stale_flips, ghost_source, replaced_across, frameObs>>

\* ------------------------------------------------------ _handle_message
\* a faulty variant: the exception leaves _handle_message
Uncaught(dm) ==
    dm

\* _handle_message(): "except Exception as e: log"
Caught(dm) ==
    [dm EXCEPT !.escaped = FALSE]

\* the parser called for the frame raises an exception it does not catch
AlpacaThrows(data) ==
    /\ "T" \in DOMAIN data
    /\ \/ data.T = "q" /\ Throws(data, {"S", "bp", "ap", "bs", "as", "t"})
       \/ data.T = "t" /\ Throws(data, {"S", "p", "s", "t"})
       \/ data.T = "b" /\ Throws(data, {"S", "o", "h", "l", "c", "v", "t"})

PolygonThrows(data) ==
    /\ "ev" \in DOMAIN data
    /\ \/ data.ev = "Q" /\ Throws(data, {"sym", "bp", "ap", "bs", "as", "t"})
       \/ data.ev = "T" /\ Throws(data, {"sym", "p", "s", "t"})
       \/ data.ev = "AM"
             /\ Throws(data, {"sym", "o", "h", "l", "c", "v", "s"})

\* AlpacaWebSocketClient._handle_message at time t: the body of its try
AlpacaHandleBody(dm, data, t) ==
    IF "malformed" \in DOMAIN data \/ AlpacaThrows(data)
    THEN [dm EXCEPT !.escaped = TRUE]
    ELSE
    LET T == IF "T" \in DOMAIN data THEN data.T ELSE "absent"
    IN CASE T = "q" ->
              LET quote == _parse_quote(data)
              IN IF quote # None
                 THEN _handle_quote(
                          update_latency_metrics(dm, quote.timestamp, t), quote)
                 ELSE dm
         [] T = "t" ->
              LET trade == _parse_trade(data)
              IN IF trade # None
                 THEN _handle_trade(
                          update_latency_metrics(dm, trade.timestamp, t), trade)
                 ELSE dm
         [] T = "b" ->
              LET bar == _parse_bar(data)
              IN IF bar # None
                 THEN _handle_bar(
                          update_latency_metrics(dm, bar.timestamp, t), bar)
                 ELSE dm
         [] T = "trade_updates" ->
              LET order_update == _parse_order_update(data)
              IN IF order_update # None
                 THEN _handle_order_update(dm, order_update)
                 ELSE dm
         [] OTHER -> dm

AlpacaHandleMessage(dm, data, t) ==
    Caught(AlpacaHandleBody(dm, data, t))

\* one element of a Polygon array frame
PolygonHandleEvent(dm, data, t) ==
    IF "malformed" \in DOMAIN data \/ PolygonThrows(data)
    THEN [dm EXCEPT !.escaped = TRUE]
    ELSE
    LET ev == IF "ev" \in DOMAIN data THEN data.ev ELSE "absent"
    IN CASE ev = "Q" ->
              LET quote == _parse_polygon_quote(data)
              IN IF quote # None
                 THEN _handle_quote(
                          update_latency_metrics(dm, quote.timestamp, t), quote)
                 ELSE dm
         [] ev = "T" ->
              LET trade == _parse_polygon_trade(data)
              IN IF trade # None
                 THEN _handle_trade(
                          update_latency_metrics(dm, trade.timestamp, t), trade)
                 ELSE dm
         [] ev = "AM" ->
              LET bar == _parse_polygon_bar(data)
              IN IF bar # None
                 THEN _handle_bar(
                          update_latency_metrics(dm, bar.timestamp, t), bar)
                 ELSE dm
         [] OTHER -> dm

\* PolygonWebSocketClient._handle_message at time t: the body of its try,
\* the array in order; an exception ends the loop over the array
RECURSIVE PolygonHandleBody(_, _, _)
PolygonHandleBody(dm, data_list, t) ==
    IF data_list = <<>> \/ dm.escaped THEN dm
    ELSE PolygonHandleBody(PolygonHandleEvent(dm, Head(data_list), t),
                           Tail(data_list), t)

PolygonHandleMessage(dm, data_list, t) ==
    Caught(PolygonHandleBody(dm, data_list, t))

\* ------------------------------------------- what a frame hands to Ingest
\* The values _handle_message passes on to the manager, in order.
Ingested(type, value) ==
    IF value = None THEN <<>>
    ELSE <<[type |-> type, symbol |-> value.symbol, value |-> value]>>

AlpacaCarried(data) ==
    IF "malformed" \in DOMAIN data \/ AlpacaThrows(data) THEN <<>>
    ELSE
    LET T == IF "T" \in DOMAIN data THEN data.T ELSE "absent"
    IN CASE T = "q" -> Ingested("quote", _parse_quote(data))
         [] T = "t" -> Ingested("trade", _parse_trade(data))
         [] T = "b" -> Ingested("bar", _parse_bar(data))
         [] T = "trade_updates" -> Ingested("order", _parse_order_update(data))
         [] OTHER -> <<>>

PolygonCarriedEvent(data) ==
    LET ev == IF "ev" \in DOMAIN data THEN data.ev ELSE "absent"
    IN CASE ev = "Q" -> Ingested("quote", _parse_polygon_quote(data))
         [] ev = "T" -> Ingested("trade", _parse_polygon_trade(data))
         [] ev = "AM" -> Ingested("bar", _parse_polygon_bar(data))
         [] OTHER -> <<>>

RECURSIVE PolygonCarried(_)
PolygonCarried(data_list) ==
    IF data_list = <<>> THEN <<>>
    ELSE IF "malformed" \in DOMAIN Head(data_list) THEN <<>>
    ELSE IF PolygonThrows(Head(data_list)) THEN <<>>
    ELSE PolygonCarriedEvent(Head(data_list)) \o PolygonCarried(Tail(data_list))

\* the quotes, trades and bars among them: the values that are cached
Cached(carried) == SelectSeq(carried, LAMBDA c : c.type # "order")

\* a frame that is not a well-formed frame of its vendor
AlpacaMalformed(data) ==
    \/ "malformed" \in DOMAIN data
    \/ /\ "T" \in DOMAIN data
       /\ data.T \in {"q", "t", "b", "trade_updates"}
       /\ AlpacaCarried(data) = <<>>

PolygonMalformed(data_list) ==
    \E k \in DOMAIN data_list :
        \/ "malformed" \in DOMAIN data_list[k]
        \/ PolygonThrows(data_list[k])
        \/ /\ "ev" \in DOMAIN data_list[k]
           /\ data_list[k].ev \in {"Q", "T", "AM"}
           /\ PolygonCarriedEvent(data_list[k]) = <<>>

\* the callbacks registered for a value, in registration order
Registry(type, symbol) ==
    CASE type = "quote" -> quote_callbacks[symbol]
      [] type = "trade" -> trade_callbacks[symbol]
      [] type = "bar" -> bar_callbacks[symbol]
      [] type = "order" -> order_callbacks

\* What the consumers were handed so far: per (type, symbol) the value of
\* the most recent ingest and the adapter it came from, whether an ingest
\* ever replaced a value of the other adapter, and the invocations the
\* ingests call for: one per registration, in registration order.
Ghost == [latest |-> ghost_latest, source |-> ghost_source,
          across |-> replaced_across, expected |-> expected_calls]

ExpectedFor(c) ==
    [k \in 1..Len(Registry(c.type, c.symbol)) |->
        [cb |-> Registry(c.type, c.symbol)[k], stream |-> c.type,
         value |-> c.value]]

RECURSIVE Record(_, _, _)
Record(G, a, carried) ==
    IF carried = <<>> THEN G
    ELSE LET c == Head(carried)
             E == [G EXCEPT !.expected = @ \o ExpectedFor(c)]
         IN Record(IF c.type = "order" THEN E
                   ELSE [E EXCEPT
                           !.latest[c.type][c.symbol] = c.value,
                           !.source[c.type][c.symbol] = a,
                           !.across = @ \/ G.source[c.type][c.symbol]
                                            = Other(a)],
                   a, Tail(carried))

\* listen(): "except Exception: self.running = False" ends task i
ListenFail(S, a, i) ==
    [S EXCEPT !.listen_tasks[a][i].st = "done", !.running[a] = FALSE]

\* Listen task i of adapter a hands one frame to _handle_message, which
\* returns newdm; `rest` are the frames its socket holds after this one,
\* n is the frame's number (0: not numbered), bad says it is malformed.
Handled(a, i, newdm, carried, rest, n, bad) ==
    /\ i \in DOMAIN listen_tasks[a]
    /\ listen_tasks[a][i].st = "listening"
    /\ ~Pending
    /\ message_count + Len(carried) <= MaxMsgs
    /\ SetDM(newdm)
    /\ LET g == listen_tasks[a][i].ws
           S == [SV EXCEPT !.inbox[a] = rest]
       IN SetSV(IF newdm.escaped THEN ListenFail(S, a, i)
                ELSE IF ws_state[a][g] # "open"
                THEN ListenLeave(S, a, g, ws_state[a][g])
                ELSE S)
    /\ ghost_latest' = Record(Ghost, a, carried).latest
    /\ ghost_source' = Record(Ghost, a, carried).source
    /\ replaced_across' = Record(Ghost, a, carried).across
    /\ expected_calls' = Record(Ghost, a, carried).expected
    /\ last_ingest_time' = IF Cached(carried) = <<>> THEN last_ingest_time
                           ELSE now
    /\ failover_invoked' = IF Cached(carried) = <<>> THEN failover_invoked
                           ELSE FALSE
    /\ stale_flips' = IF Cached(carried) = <<>> THEN stale_flips ELSE 0
    /\ handled_seq' = IF n = 0 THEN handled_seq
                      ELSE [handled_seq EXCEPT ![a] = Append(@, n)]
    /\ malformed_at' = IF bad /\ n # 0 /\ malformed_at[a] = 0
                       THEN [malformed_at EXCEPT ![a] = n]
                       ELSE malformed_at
    /\ UNCHANGED <<subscribe_log, callObs>>
    /\ UNCHANGED <<now, primary_source, last_message_time, start_symbols,
                   start_entry, starts, stops, arrivals>>

\* A frame arrives on the socket listen task i of adapter a waits on and
\* is handed on at once.
Deliver(a, i, newdm, carried) ==
    /\ i \in DOMAIN listen_tasks[a]
    /\ ws_state[a][listen_tasks[a][i].ws] = "open"
    /\ inbox[a] = <<>>
    /\ Handled(a, i, newdm, carried, <<>>, 0, FALSE)

AlpacaFrame(i, data) ==
    Deliver("alpaca", i, AlpacaHandleMessage(DM, data, now),
            AlpacaCarried(data))

PolygonFrame(i, data_list) ==
    Deliver("polygon", i, PolygonHandleMessage(DM, data_list, now),
            PolygonCarried(data_list))

\* A frame arrives on the open socket of adapter a while a listen task
\* iterates over it, and is numbered in the order of arrival.
Arrive(a, data) ==
    /\ websocket[a] # 0 /\ ws_state[a][websocket[a]] = "open"
    /\ \E i \in DOMAIN listen_tasks[a] :
          /\ listen_tasks[a][i].st = "listening"
          /\ listen_tasks[a][i].ws = websocket[a]
    /\ ~Pending
    /\ arrivals[a] + arrivals[Other(a)] < MaxArrivals
    /\ arrivals' = [arrivals EXCEPT ![a] = @ + 1]
    /\ SetSV([SV EXCEPT !.inbox[a] =
                 Append(@, [n |-> arrivals[a] + 1, data |-> data])])
    /\ UNCHANGED <<now, dmVars, primary_source, last_message_time,
                   start_symbols, start_entry, starts, stops,
                   ghost_latest, last_ingest_time, failover_invoked,
                   stale_flips, ghost_source, replaced_across,
                   expected_calls, handled_seq, malformed_at, subscribe_log,
                   callObs>>

\* a faulty variant: the frame received last
NextFrame_newest(frames) ==
    frames[Len(frames)]

\* "async for message in self.websocket": the frame received first
NextFrame(frames) ==
    Head(frames)

RestFrames(frames) ==
    Tail(frames)

\* "await self._handle_message(message)" of the next frame of the socket
AlpacaNext(i) ==
    /\ inbox["alpaca"] # <<>>
    /\ LET f == NextFrame(inbox["alpaca"])
       IN Handled("alpaca", i, AlpacaHandleMessage(DM, f.data, now),
                  AlpacaCarried(f.data), RestFrames(inbox["alpaca"]), f.n,
                  AlpacaMalformed(f.data))

PolygonNext(i) ==
    /\ inbox["polygon"] # <<>>
    /\ LET f == NextFrame(inbox["polygon"])
       IN Handled("polygon", i, PolygonHandleMessage(DM, f.data, now),
                  PolygonCarried(f.data), RestFrames(inbox["polygon"]), f.n,
                  PolygonMalformed(f.data))

\* the number of registrations for the symbols of a set
RECURSIVE Registrations(_)
Registrations(symbols) ==
    IF symbols = {} THEN 0
    ELSE LET s == CHOOSE x \in symbols : TRUE
         IN Len(quote_callbacks[s]) + Len(trade_callbacks[s])
            + Len(bar_callbacks[s]) + Registrations(symbols \ {s})

\* a consumer registers a callback
Subscribe(stream, symbol, callback) ==
    /\ Registrations(Symbols) + Len(order_callbacks) < MaxRegistrations
    /\ SetDM(CASE stream = "quote" -> subscribe_quotes(DM, symbol, callback)
               [] stream = "trade" -> subscribe_trades(DM, symbol, callback)
               [] stream = "bar" -> subscribe_bars(DM, symbol, callback)
               [] stream = "order" -> subscribe_orders(DM, callback))
    /\ UNCHANGED <<now, adVars, svcVars, callVars, obsVars>>

\* ---------------------------------------------------------- the monitor
\* _handle_failover()
_handle_failover(primary, a_connected, p_connected) ==
    IF primary = "alpaca" /\ p_connected THEN "polygon"
    ELSE IF primary = "polygon" /\ a_connected THEN "alpaca"
    ELSE primary

\* a faulty variant: the running flags are not looked at
StatusCheck_skipped(primary, run) ==
    primary

\* a faulty variant: only the first branch of the check
StatusCheck_alpaca_only(primary, run) ==
    IF primary = "alpaca" /\ ~run["alpaca"] THEN "polygon"
    ELSE primary

\* _monitor_connections(): "Check individual connection status"
StatusCheck(primary, run) ==
    IF primary = "alpaca" /\ ~run["alpaca"] THEN "polygon"
    ELSE IF primary = "polygon" /\ ~run["polygon"] THEN "alpaca"
    ELSE primary

\* _monitor_connections(): the staleness condition
IsStale(t, last) == t - last > failover_timeout

\* primary_source after the staleness check of one monitor pass
AfterStaleness ==
    IF IsStale(now, last_message_time)
    THEN _handle_failover(primary_source, alpaca_connected, polygon_connected)
    ELSE primary_source

BothUp ==
    /\ alpaca_connected /\ polygon_connected
    /\ running["alpaca"] /\ running["polygon"]

\* a faulty variant: a switch of the primary drops the cached quotes
MonitorTick_dropping(m) ==
    /\ m \in DOMAIN monitors
    /\ \/ monitors[m].st = "created" /\ ~ListenPending
       \/ monitors[m].st = "sleeping" /\ monitors[m].wake = now /\ ~Pending
    /\ primary_source' = StatusCheck(AfterStaleness, running)
    /\ latest_quotes' = IF primary_source' # primary_source
                        THEN [s \in Symbols |-> None] ELSE latest_quotes
    /\ monitors' = [monitors EXCEPT
                      ![m] = [st |-> "sleeping", wake |-> now + 1]]
    /\ failover_invoked' = IsStale(now, last_message_time)
    /\ UNCHANGED <<now, latest_trades, latest_bars, message_count,
                   dm_last_message_time, latency_samples, quote_callbacks,
                   trade_callbacks, bar_callbacks, order_callbacks,
                   invocations, adVars, alpaca_connected, polygon_connected,
                   last_message_time, monitoring_task, callVars,
                   ghost_latest, last_ingest_time, alpaca_stopped_at,
                   ghost_source, replaced_across, frameObs, stale_flips>>

\* One pass of the loop of monitor task m, up to its sleep.
MonitorTick(m) ==
    /\ m \in DOMAIN monitors
    /\ \/ monitors[m].st = "created" /\ ~ListenPending
       \/ monitors[m].st = "sleeping" /\ monitors[m].wake = now /\ ~Pending
    /\ primary_source' = StatusCheck(AfterStaleness, running)
    /\ monitors' = [monitors EXCEPT
                      ![m] = [st |-> "sleeping", wake |-> now + 1]]
    /\ failover_invoked' = IsStale(now, last_message_time)
    /\ stale_flips' = IF /\ BothUp
                         /\ now - last_ingest_time > failover_timeout
                         /\ primary_source' # primary_source
                      THEN (IF stale_flips < 2 THEN stale_flips + 1 ELSE 2)
                      ELSE stale_flips
    /\ UNCHANGED <<now, dmVars, adVars, alpaca_connected, polygon_connected,
                   last_message_time, monitoring_task, callVars,
                   ghost_latest, last_ingest_time, alpaca_stopped_at,
                   ghost_source, replaced_across, frameObs>>

\* A second passes; a sleeping monitor wakes when its second is over.
Tick(limit) ==
    /\ now < limit /\ ~Pending
    /\ \A m \in DOMAIN monitors :
           monitors[m].st = "sleeping" => monitors[m].wake > now
    /\ now' = now + 1
    /\ failover_invoked' = FALSE
    /\ UNCHANGED <<dmVars, adVars, svcVars, callVars, ghost_latest,
                   last_ingest_time, stale_flips, alpaca_stopped_at,
                   ghost_source, replaced_across, frameObs>>

\* ------------------------------------------------------------- queries
\* an Optional[float] that is present
Price(p) == [price |-> p]

\* RedundantDataService.get_current_price
get_current_price(dm, symbol) ==
    IF get_latest_quote(dm, symbol) # None
    THEN Price(mid_price(get_latest_quote(dm, symbol)))
    ELSE None

\* RealTimeDataService.get_current_price
rt_get_current_price(dm, symbol) ==
    LET quote == get_latest_quote(dm, symbol)
        trade == get_latest_trade(dm, symbol)
    IN IF quote # None THEN Price(mid_price(quote))
       ELSE IF trade # None THEN Price(trade.price)
       ELSE None

\* no query was made yet
NoQuery == [op |-> "none", symbol |-> "", samples |-> 0, value |-> None]

\* a consumer calls get_latest_quote/get_latest_trade/get_latest_bar
LatestQuery(type, symbol) ==
    /\ query_result' =
         [op |-> type, symbol |-> symbol, samples |-> Len(latency_samples),
          value |-> CASE type = "quote" -> get_latest_quote(DM, symbol)
                      [] type = "trade" -> get_latest_trade(DM, symbol)
                      [] type = "bar" -> get_latest_bar(DM, symbol)]
    /\ UNCHANGED <<now, dmVars, adVars, svcVars, callVars, ghost_latest,
                   last_ingest_time, failover_invoked, stale_flips,
                   alpaca_stopped_at, ghost_source, replaced_across,
                   expected_calls, arrivals, handled_seq, malformed_at,
                   subscribe_log, disconnects, all_samples>>

\* a consumer calls get_latency_stats
StatsQuery ==
    /\ query_result' =
         [op |-> "latency_stats", symbol |-> "",
          samples |-> Len(latency_samples),
          value |-> get_latency_stats(DM, now)]
    /\ UNCHANGED <<now, dmVars, adVars, svcVars, callVars, ghost_latest,
                   last_ingest_time, failover_invoked, stale_flips,
                   alpaca_stopped_at, ghost_source, replaced_across,
                   expected_calls, arrivals, handled_seq, malformed_at,
                   subscribe_log, disconnects, all_samples>>

\* RedundantDataService.get_connection_status()["last_message_age"]
last_message_age == now - last_message_time

\* ------------------------------------------------------------ the system
NoValues == [s \in Symbols |-> None]

\* The state after construction and update_latency_metrics called once for
\* each sample of `history`, which has at most MaxLatencySamples samples.
Constructed(history) ==
    /\ now = 1
    /\ latest_quotes = NoValues
    /\ latest_trades = NoValues
    /\ latest_bars = NoValues
    /\ message_count = Len(history)
    /\ dm_last_message_time = IF history = <<>> THEN 0 ELSE 1
    /\ latency_samples = history
    /\ all_samples = history
    /\ quote_callbacks = [s \in Symbols |-> <<>>]
    /\ trade_callbacks = [s \in Symbols |-> <<>>]
    /\ bar_callbacks = [s \in Symbols |-> <<>>]
    /\ order_callbacks = <<>>
    /\ invocations = <<>>
    /\ inbox = [a \in Adapters |-> <<>>]
    /\ expected_calls = <<>>
    /\ arrivals = [a \in Adapters |-> 0]
    /\ handled_seq = [a \in Adapters |-> <<>>]
    /\ malformed_at = [a \in Adapters |-> 0]
    /\ subscribe_log = [a \in Adapters |-> NoSubscribes({})]
    /\ disconnects = [a \in Adapters |-> NoDisconnects]
    /\ query_result = NoQuery
    /\ running = [a \in Adapters |-> FALSE]
    /\ websocket = [a \in Adapters |-> 0]
    /\ ws_state = [a \in Adapters |-> [g \in Calls |-> "none"]]
    /\ subscribed_symbols = [a \in Adapters |-> {}]
    /\ sent_frames = [a \in Adapters |-> 0]
    /\ subscribe_calls = [a \in Adapters |-> 0]
    /\ listen_tasks = [a \in Adapters |-> <<>>]
    /\ alpaca_connected = FALSE
    /\ polygon_connected = FALSE
    /\ primary_source = "alpaca"
    /\ last_message_time = now
    /\ monitoring_task = 0
    /\ monitors = <<>>
    /\ start_pc = "idle"
    /\ start_symbols = {}
    /\ start_result = "none"
    /\ starts = 0
    /\ stop_pc = "idle"
    /\ start_entry = Entry(SV)
    /\ stops = 0
    /\ ghost_latest = [ty \in {"quote", "trade", "bar"} |-> NoValues]
    /\ last_ingest_time = now
    /\ failover_invoked = FALSE
    /\ stale_flips = 0
    /\ alpaca_stopped_at = 0
    /\ ghost_source = [ty \in {"quote", "trade", "bar"} |->
                         [s \in Symbols |-> "none"]]
    /\ replaced_across = FALSE

Init == Constructed(<<>>)

\* the frames of the coordination runs: one quote feed per vendor
CoordAlpacaFrames(t) == {AlpacaQuoteFrame("AAPL", 100, t)}
CoordPolygonFrames(t) == {<<PolygonQuoteEvent("AAPL", 102, t)>>}

Lifecycle(limit) ==
    \/ StartCall(Symbols, limit)
    \/ \E o \in ConnectOutcomes : StartConnectAlpaca(o)
    \/ \E o \in ConnectOutcomes : StartConnectPolygon(o)
    \/ \E o \in SendOutcomes : StartSubscribeAlpaca(o)
    \/ \E o \in SendOutcomes : StartSubscribePolygon(o)
    \/ \E a \in Adapters, i \in Calls : ListenBegin(a, i)
    \/ \E a \in Adapters, g \in Calls,
          how \in {"closed_ok", "closed_error"} : PeerClose(a, g, how)
    \/ \E m \in Calls : MonitorTick(m)

\* the service in the first seconds after its construction
Next == Lifecycle(MaxStarts) \/ Tick(MaxUptime)

Spec == Init /\ [][Next]_vars

\* the same with start() called again
NextRestart == Lifecycle(MaxRestarts) \/ Tick(MaxUptime)

SpecRestart == Init /\ [][NextRestart]_vars

\* the same with stop() called as well
NextShutdown ==
    \/ Lifecycle(MaxRestarts)
    \/ Tick(MaxUptime)
    \/ StopCall
    \/ StopClosedAlpaca
    \/ StopClosedPolygon

SpecShutdown == Init /\ [][NextShutdown]_vars

\* The state after start(["AAPL", "TSLA"]) connected and subscribed both
\* feeds within the second of construction and both listen tasks entered
\* their loops; the monitor task has not run yet.
StartedBase ==
    /\ now = 1
    /\ latest_quotes = NoValues
    /\ latest_trades = NoValues
    /\ latest_bars = NoValues
    /\ message_count = 0
    /\ dm_last_message_time = 0
    /\ latency_samples = <<>>
    /\ invocations = <<>>
    /\ inbox = [a \in Adapters |-> <<>>]
    /\ expected_calls = <<>>
    /\ arrivals = [a \in Adapters |-> 0]
    /\ handled_seq = [a \in Adapters |-> <<>>]
    /\ malformed_at = [a \in Adapters |-> 0]
    /\ subscribe_log = [a \in Adapters |-> NoSubscribes(Symbols)]
    /\ disconnects = [a \in Adapters |-> NoDisconnects]
    /\ query_result = NoQuery
    /\ all_samples = <<>>
    /\ running = [a \in Adapters |-> TRUE]
    /\ websocket = [a \in Adapters |-> 1]
    /\ ws_state = [a \in Adapters |->
                     [g \in Calls |-> IF g = 1 THEN "open" ELSE "none"]]
    /\ subscribed_symbols = [a \in Adapters |-> Symbols]
    /\ sent_frames = [a \in Adapters |-> 1]
    /\ subscribe_calls = [a \in Adapters |-> 1]
    /\ listen_tasks = [a \in Adapters |-> <<[ws |-> 1, st |-> "listening"]>>]
    /\ alpaca_connected = TRUE
    /\ polygon_connected = TRUE
    /\ primary_source = "alpaca"
    /\ last_message_time = 1
    /\ monitoring_task = 1
    /\ monitors = <<[st |-> "created", wake |-> 1]>>
    /\ start_pc = "idle"
    /\ start_symbols = Symbols
    /\ start_result = "ok"
    /\ starts = 1
    /\ stop_pc = "idle"
    /\ stops = 0
    /\ start_entry = [sent |-> [a \in Adapters |-> 0],
                      calls |-> [a \in Adapters |-> 0],
                      listen |-> [a \in Adapters |-> 0], mon |-> 0]
    /\ ghost_latest = [ty \in {"quote", "trade", "bar"} |-> NoValues]
    /\ last_ingest_time = 1
    /\ failover_invoked = FALSE
    /\ stale_flips = 0
    /\ alpaca_stopped_at = 0
    /\ ghost_source = [ty \in {"quote", "trade", "bar"} |->
                         [s \in Symbols |-> "none"]]
    /\ replaced_across = FALSE

\* no consumer has registered a callback
NoCallbacks ==
    /\ quote_callbacks = [s \in Symbols |-> <<>>]
    /\ trade_callbacks = [s \in Symbols |-> <<>>]
    /\ bar_callbacks = [s \in Symbols |-> <<>>]
    /\ order_callbacks = <<>>

Started == StartedBase /\ NoCallbacks

\* a consumer registered two callbacks for the quotes of AAPL before start()
QuoteCallbacks ==
    /\ quote_callbacks = [s \in Symbols |->
                            IF s = "AAPL"
                            THEN <<"on_value", "on_value_raising">>
                            ELSE <<>>]
    /\ trade_callbacks = [s \in Symbols |-> <<>>]
    /\ bar_callbacks = [s \in Symbols |-> <<>>]
    /\ order_callbacks = <<>>

StartedSubscribed == StartedBase /\ QuoteCallbacks

Running ==
    \/ \E a \in Adapters, g \in Calls,
          how \in {"closed_ok", "closed_error"} : PeerClose(a, g, how)
    \/ \E m \in Calls : MonitorTick(m)
    \/ StopCall
    \/ StopClosedAlpaca
    \/ StopClosedPolygon

\* the started service over time, each vendor emitting quotes
NextFailover ==
    \/ Running
    \/ Tick(MaxTime)
    \/ \E i \in Calls, f \in CoordAlpacaFrames(now) : AlpacaFrame(i, f)
    \/ \E i \in Calls, f \in CoordPolygonFrames(now) : PolygonFrame(i, f)

SpecFailover == Started /\ [][NextFailover]_vars

\* the same with the consumer's callbacks registered
SpecCoordination == StartedSubscribed /\ [][NextFailover]_vars

\* the frames of the data runs: every kind of frame of both vendors, the
\* events of vendor B stamped a second earlier than those of vendor A
DataPrices == {100, 102}
DataAlpacaFrames(t) ==
    UNION {{AlpacaQuoteFrame(s, p, u), AlpacaTradeFrame(s, p, u),
            AlpacaBarFrame(s, p, u)} :
           s \in Symbols, p \in DataPrices, u \in {t}}
    \cup {AlpacaBadQuoteFrame(s, t) : s \in Symbols}
    \cup {AlpacaStatusFrame}

DataPolygonFrames(t) ==
    UNION {{<<PolygonQuoteEvent(s, p, u)>>, <<PolygonTradeEvent(s, p, u)>>,
            <<PolygonBarEvent(s, p, u)>>,
            <<PolygonQuoteEvent(s, p, u), PolygonTradeEvent(s, p + 2, u)>>} :
           s \in Symbols, p \in DataPrices, u \in {t - 1}}
    \cup {<<PolygonBadQuoteEvent(s, t)>> : s \in Symbols}
    \cup {<<PolygonStatusEvent>>}

\* the started service ingesting from both vendors, and its consumers
NextData ==
    \/ \E i \in Calls, f \in DataAlpacaFrames(now) : AlpacaFrame(i, f)
    \/ \E i \in Calls, f \in DataPolygonFrames(now) : PolygonFrame(i, f)
    \/ \E a \in Adapters, g \in Calls,
          how \in {"closed_ok", "closed_error"} : PeerClose(a, g, how)
    \/ \E m \in Calls : MonitorTick(m)

SpecData == Started /\ [][NextData]_vars

\* the frames of the consumer runs: every stream of vendor A and an array
\* of vendor B
ConsumerAlpacaFrames(t) ==
    {AlpacaQuoteFrame("AAPL", 100, t), AlpacaTradeFrame("AAPL", 100, t),
     AlpacaBarFrame("AAPL", 100, t), AlpacaOrderFrame("AAPL", t)}

ConsumerPolygonFrames(t) ==
    {<<PolygonQuoteEvent("AAPL", 102, t), PolygonTradeEvent("AAPL", 104, t)>>}

\* the frames of both vendors arriving, buffered and handed on
Feed(alpaca_frames, polygon_frames) ==
    \/ \E f \in alpaca_frames : Arrive("alpaca", f)
    \/ \E f \in polygon_frames : Arrive("polygon", f)
    \/ \E i \in Calls : AlpacaNext(i)
    \/ \E i \in Calls : PolygonNext(i)

\* the started service with its consumers registering callbacks while
\* frames arrive
NextConsumers ==
    \/ \E stream \in {"quote", "trade", "bar", "order"}, cb \in Callbacks :
          Subscribe(stream, "AAPL", cb)
    \/ Feed(ConsumerAlpacaFrames(now), ConsumerPolygonFrames(now))
    \/ \E m \in Calls : MonitorTick(m)

SpecConsumers == Started /\ [][NextConsumers]_vars

\* the started service ingesting the data of one symbol while a consumer
\* queries the manager
NextQueries ==
    \/ \E i \in Calls, f \in ConsumerAlpacaFrames(now) : AlpacaFrame(i, f)
    \/ \E i \in Calls, f \in ConsumerPolygonFrames(now) : PolygonFrame(i, f)
    \/ \E m \in Calls : MonitorTick(m)
    \/ \E type \in {"quote", "trade", "bar"}, s \in Symbols :
          LatestQuery(type, s)
    \/ StatsQuery

SpecQueries == Started /\ [][NextQueries]_vars

\* a consumer registered a callback of its own for every stream of every
\* symbol and one for the order updates before start()
KeyedCallbacks ==
    /\ quote_callbacks = [s \in Symbols |->
                            IF s = "AAPL" THEN <<"on_quote_AAPL">>
                            ELSE <<"on_quote_TSLA">>]
    /\ trade_callbacks = [s \in Symbols |->
                            IF s = "AAPL" THEN <<"on_trade_AAPL">>
                            ELSE <<"on_trade_TSLA">>]
    /\ bar_callbacks = [s \in Symbols |->
                          IF s = "AAPL" THEN <<"on_bar_AAPL">>
                          ELSE <<"on_bar_TSLA">>]
    /\ order_callbacks = <<"on_order">>

StartedKeyed == StartedBase /\ KeyedCallbacks

\* the frames of the isolation runs: every stream of both symbols
IsolationAlpacaFrames(t) ==
    {AlpacaQuoteFrame("AAPL", 100, t), AlpacaQuoteFrame("TSLA", 200, t),
     AlpacaTradeFrame("AAPL", 100, t), AlpacaTradeFrame("TSLA", 200, t),
     AlpacaBarFrame("AAPL", 100, t), AlpacaBarFrame("TSLA", 200, t),
     AlpacaOrderFrame("AAPL", t)}

IsolationPolygonFrames(t) ==
    {<<PolygonQuoteEvent("AAPL", 102, t), PolygonTradeEvent("TSLA", 202, t)>>,
     <<PolygonTradeEvent("AAPL", 104, t)>>,
     <<PolygonBarEvent("TSLA", 204, t)>>}

\* the started service with a callback per key while frames of both
\* symbols arrive
NextIsolation ==
    \/ Feed(IsolationAlpacaFrames(now), IsolationPolygonFrames(now))
    \/ \E m \in Calls : MonitorTick(m)

SpecIsolation == StartedKeyed /\ [][NextIsolation]_vars

\* the frames of the framing runs: well-formed and malformed ones
FramingAlpacaFrames(t) ==
    {AlpacaQuoteFrame("AAPL", 100, t), AlpacaQuoteFrame("AAPL", 102, t),
     AlpacaBadQuoteFrame("AAPL", t), AlpacaIllTypedQuoteFrame("AAPL", t),
     InvalidJson, WrongShape}

FramingPolygonFrames(t) ==
    {<<PolygonQuoteEvent("AAPL", 104, t)>>,
     <<PolygonBadQuoteEvent("AAPL", t)>>,
     <<InvalidJson>>,
     <<PolygonQuoteEvent("AAPL", 106, t), WrongShape,
       PolygonTradeEvent("AAPL", 106, t)>>,
     <<PolygonBadQuoteEvent("AAPL", t), PolygonTradeEvent("AAPL", 108, t)>>,
     <<PolygonNullQuoteEvent("AAPL", t), PolygonTradeEvent("AAPL", 110, t)>>}

\* the started service while frames of every kind arrive, the sockets
\* close and stop() is called
NextFraming ==
    \/ Feed(FramingAlpacaFrames(now), FramingPolygonFrames(now))
    \/ Running

SpecFraming == Started /\ [][NextFraming]_vars

\* ------------------------------------------- the adapters called directly
\* connect_market_data() / connect() called on adapter a
ConnectCall(a, outcome) ==
    /\ websocket[a] + 1 \in Calls
    /\ SetSV(AdapterConnect(SV, a, outcome, websocket[a] + 1))
    /\ UNCHANGED <<now, dmVars, primary_source, last_message_time,
                   start_symbols, start_entry, starts, stops,
                   ghost_latest, last_ingest_time, failover_invoked,
                   stale_flips, ghost_source, replaced_across, frameObs>>

\* subscribe_symbols(symbols) called on adapter a
SubscribeCall(a, symbols, limit) ==
    LET C == [SV EXCEPT !.subscribe_calls[a] = @ + 1]
        outcome == SendOutcome(C, a)
        result == SubscribeResult(C, a, outcome)
    IN /\ subscribe_calls[a] + subscribe_calls[Other(a)] < limit
       /\ SetSV(IF SubscribeGuard(C, a)
                THEN SubscribeSend(C, a, symbols, outcome)
                ELSE C)
       /\ subscribe_log' =
            [subscribe_log EXCEPT
               ![a] = [union |-> IF result THEN @.union \cup symbols
                                 ELSE @.union,
                       last |-> [symbols |-> symbols,
                                 connected |-> Connected(SV, a),
                                 running |-> running[a],
                                 result |-> result,
                                 before |-> subscribed_symbols[a],
                                 sent_before |-> sent_frames[a]]]]
       /\ UNCHANGED <<now, dmVars, primary_source, last_message_time,
                      start_symbols, start_entry, starts, stops,
                      ghost_latest, last_ingest_time, failover_invoked,
                      stale_flips, ghost_source, replaced_across,
                      expected_calls, arrivals, handled_seq, malformed_at,
                      callObs>>

\* an adapter connected and subscribed by its user, its current socket
\* closed by the peer; the other adapter is called without a connection
NextSubscribe ==
    \/ \E a \in Adapters, o \in ConnectOutcomes :
          websocket[Other(a)] = 0 /\ ConnectCall(a, o)
    \/ \E a \in Adapters, symbols \in (SUBSET Symbols) \ {{}} :
          SubscribeCall(a, symbols, MaxSubscribes)
    \/ \E a \in Adapters, how \in {"closed_ok", "closed_error"} :
          websocket[a] # 0 /\ PeerClose(a, websocket[a], how)

SpecSubscribe == Init /\ [][NextSubscribe]_vars

\* disconnect() called on adapter a
DisconnectCall(a) ==
    /\ disconnects[a].calls + disconnects[Other(a)].calls < MaxDisconnects
    /\ SetSV(disconnect(SV, a))
    /\ disconnects' =
         [disconnects EXCEPT
            ![a] = [calls |-> @.calls + 1, ws |-> websocket[a],
                    unchanged |-> disconnect(SV, a) = SV]]
    /\ UNCHANGED <<now, dmVars, primary_source, last_message_time,
                   start_symbols, start_entry, starts, stops,
                   ghost_latest, last_ingest_time, failover_invoked,
                   stale_flips, ghost_source, replaced_across,
                   expected_calls, arrivals, handled_seq, malformed_at,
                   subscribe_log, query_result, all_samples>>

\* asyncio.create_task(listen()) on adapter a
ListenCall(a) ==
    /\ Len(listen_tasks[a]) + Len(listen_tasks[Other(a)]) < MaxListens
    /\ SetSV([SV EXCEPT !.listen_tasks[a] =
                 Append(@, [ws |-> 0, st |-> "created"])])
    /\ UNCHANGED <<now, dmVars, primary_source, last_message_time,
                   start_symbols, start_entry, starts, stops,
                   ghost_latest, last_ingest_time, failover_invoked,
                   stale_flips, ghost_source, replaced_across, frameObs>>

\* an adapter connected, listened on, subscribed and disconnected by its
\* user in any order, its current socket closed by the peer; the other
\* adapter is called without a connection
NextAdapter ==
    \/ \E a \in Adapters, o \in ConnectOutcomes :
          websocket[Other(a)] = 0 /\ ~Pending /\ ConnectCall(a, o)
    \/ \E a \in Adapters :
          ~Pending /\ SubscribeCall(a, Symbols, MaxProbes)
    \/ \E a \in Adapters : DisconnectCall(a)
    \/ \E a \in Adapters : ListenCall(a)
    \/ \E a \in Adapters, i \in Calls : ListenBegin(a, i)
    \/ \E a \in Adapters, how \in {"closed_ok", "closed_error"} :
          websocket[a] # 0 /\ PeerClose(a, websocket[a], how)

SpecAdapter == Init /\ [][NextAdapter]_vars

\* ------------------------------------- the manager's metrics called directly
\* the latencies of the messages, in milliseconds
SampleLatencies == {1, 25, 50}

\* the latencies of n messages processed before
Processed(n) == [k \in 1..n |-> (k % 50) + 1]

\* update_latency_metrics() called with the timestamp of a message that
\* is `latency` milliseconds old
LatencyCall(latency) ==
    /\ Len(all_samples) < MaxLatencySamples + MaxCalls
    /\ SetDM(update_latency_metrics(DM, now * 1000 - latency, now))
    /\ all_samples' = Append(all_samples, latency)
    /\ UNCHANGED <<now, adVars, svcVars, callVars, ghost_latest,
                   last_ingest_time, failover_invoked, stale_flips,
                   alpaca_stopped_at, ghost_source, replaced_across,
                   expected_calls, arrivals, handled_seq, malformed_at,
                   subscribe_log, disconnects, query_result>>

\* a manager that has processed nearly as many messages as its buffer
\* holds, or as many
NearlyFull ==
    \E n \in (MaxLatencySamples - 2)..MaxLatencySamples :
        Constructed(Processed(n))

NextLatency ==
    \/ \E latency \in SampleLatencies : LatencyCall(latency)
    \/ StatsQuery

SpecLatency == NearlyFull /\ [][NextLatency]_vars

\* ================================================================ claims
MonitorAlive ==
    monitoring_task # 0 /\ monitors[monitoring_task].st # "cancelled"

\* a step of a monitor task: one pass of its loop
MonitorStep ==
    \E m \in DOMAIN monitors :
        m \in DOMAIN monitors' /\ monitors'[m].wake # monitors[m].wake

Flag(a) == IF a = "alpaca" THEN alpaca_connected ELSE polygon_connected

\* C1 (latest-wins): after any interleaving of ingests from the two
\* adapters, get_latest_quote/trade/bar of every symbol return exactly the
\* value of the most recent ingest for that symbol and type, whichever
\* adapter produced it.
C1_LatestWins ==
    \A s \in Symbols :
        /\ get_latest_quote(DM, s) = ghost_latest["quote"][s]
        /\ get_latest_trade(DM, s) = ghost_latest["trade"][s]
        /\ get_latest_bar(DM, s) = ghost_latest["bar"][s]

\* an ingest of the Polygon adapter has replaced a value of the Alpaca
\* adapter, or the other way round, and a second key holds a value too
C1_Witness ==
    /\ replaced_across
    /\ message_count >= 2
    /\ \E s \in Symbols :
          /\ ghost_source["quote"][s] = "polygon"
          /\ get_latest_quote(DM, s) # None
          /\ get_latest_quote(DM, s) = ghost_latest["quote"][s]

\* C2 (failover once per stale window): with both feeds connected and both
\* adapters running, the monitor flips primary_source at most once while
\* no ingest happens for longer than failover_timeout.
C2_OnceNoPingPong ==
    stale_flips <= 1

\* C3 (no flip while no feed is connected): where both connected flags are
\* false and neither adapter is running, no step changes primary_source.
C3_NoFlipUnconnected ==
    [][(/\ ~alpaca_connected /\ ~polygon_connected
        /\ ~running["alpaca"] /\ ~running["polygon"])
       => primary_source' = primary_source]_vars

\* C4 (proof of life): once a value was ingested, the coordinator's
\* last_message_time is the time of the most recent ingest, so that
\* last_message_age is the time elapsed since that ingest.
C4_ProofOfLife ==
    message_count > 0 =>
        /\ last_message_time = last_ingest_time
        /\ last_message_age = now - last_ingest_time

\* C5 (no staleness failover while data arrives): a monitor pass invokes
\* _handle_failover only when the most recent ingest (or, before the first
\* one, the construction) is more than failover_timeout old.
C5_NoFailoverWhileFresh ==
    failover_invoked => now - last_ingest_time > failover_timeout

\* C6 (adapter-stopped switch): at a monitor pass whose status check finds
\* the primary adapter not running, primary_source becomes the other feed
\* if that feed is connected and is left as it is if it is not.
C6_StoppedSwitch ==
    [][(MonitorStep /\ ~running[AfterStaleness])
       => primary_source' = IF Flag(Other(AfterStaleness))
                            THEN Other(AfterStaleness)
                            ELSE AfterStaleness]_vars

\* C7 (end-to-end failover): after a start with both feeds connected, with
\* the monitor alive, the Alpaca adapter stopped for failover_timeout + 1
\* seconds or longer and the Polygon adapter running, primary_source is
\* polygon in every state.
C7_EndToEnd ==
    (/\ MonitorAlive
     /\ alpaca_connected /\ polygon_connected
     /\ ~running["alpaca"] /\ running["polygon"]
     /\ alpaca_stopped_at # 0
     /\ now >= alpaca_stopped_at + failover_timeout + 1)
    => primary_source = "polygon"

\* the Alpaca adapter stopped at least failover_timeout + 1 seconds ago,
\* Polygon has emitted since, and the monitor's staleness check fires
C7_Witness ==
    /\ MonitorAlive
    /\ ~running["alpaca"] /\ running["polygon"]
    /\ alpaca_stopped_at # 0
    /\ now >= alpaca_stopped_at + failover_timeout + 1
    /\ last_ingest_time > alpaca_stopped_at
    /\ ghost_source["quote"]["AAPL"] = "polygon"
    /\ failover_invoked
    /\ primary_source = "polygon"

\* C8 (total source exhaustion): when both connects of a start() returned
\* false, the call has raised, and it sent no subscribe frame, called no
\* subscribe, created no listen task and no monitor task.
C8_Exhaustion ==
    (/\ starts > 0 /\ start_pc = "idle"
     /\ ~alpaca_connected /\ ~polygon_connected)
    => /\ start_result = "raised"
       /\ sent_frames = start_entry.sent
       /\ subscribe_calls = start_entry.calls
       /\ \A a \in Adapters : Len(listen_tasks[a]) = start_entry.listen[a]
       /\ Len(monitors) = start_entry.mon

C8_Witness ==
    /\ starts > 0 /\ start_pc = "idle"
    /\ ~alpaca_connected /\ ~polygon_connected
    /\ start_result = "raised"
    /\ monitors = <<>>

\* C9 (degraded single-source start): when exactly one connect of a
\* start() returned true, the call completes without error, subscribe is
\* called and a listen task created for the connected adapter only, and
\* exactly one monitor task is created.
C9_Degraded ==
    \A a \in Adapters :
        (/\ starts > 0 /\ start_pc = "idle"
         /\ Flag(a) /\ ~Flag(Other(a)))
        => /\ start_result = "ok"
           /\ subscribe_calls[a] = start_entry.calls[a] + 1
           /\ subscribe_calls[Other(a)] = start_entry.calls[Other(a)]
           /\ sent_frames[Other(a)] = start_entry.sent[Other(a)]
           /\ Len(listen_tasks[a]) = start_entry.listen[a] + 1
           /\ Len(listen_tasks[Other(a)]) = start_entry.listen[Other(a)]
           /\ Len(monitors) = start_entry.mon + 1

C9_Witness ==
    /\ start_pc = "idle" /\ start_result = "ok"
    /\ polygon_connected /\ ~alpaca_connected
    /\ sent_frames["polygon"] = 1 /\ sent_frames["alpaca"] = 0
    /\ Len(listen_tasks["polygon"]) = 1 /\ listen_tasks["alpaca"] = <<>>
    /\ Len(monitors) = 1

\* C10 (CurrentPrice preference order): for every symbol the coordinator's
\* get_current_price returns the latest quote's mid-price when a quote is
\* cached, otherwise the latest trade's price when a trade is cached,
\* otherwise absent.
C10_Preference ==
    \A s \in Symbols :
        get_current_price(DM, s) =
            IF latest_quotes[s] # None
            THEN Price((latest_quotes[s].bid_price
                        + latest_quotes[s].ask_price) \div 2)
            ELSE IF latest_trades[s] # None
            THEN Price(latest_trades[s].price)
            ELSE None

\* what the consumers were called with: the invocations without what the
\* callbacks saw and did
Called ==
    [k \in DOMAIN invocations |->
        [cb |-> invocations[k].cb, stream |-> invocations[k].stream,
         value |-> invocations[k].value]]

\* C11 (failover is state-only): a step that changes primary_source, by
\* the staleness path or by the adapter-stopped path, changes nothing of
\* the manager (caches, callback registries, counters) and nothing of the
\* adapters (subscribed symbols, running flags, frames sent, sockets,
\* tasks), and every query returns after it what it returned before.
C11_StateOnly ==
    [][primary_source' # primary_source
       => /\ UNCHANGED <<dmVars, adVars>>
          /\ UNCHANGED <<alpaca_connected, polygon_connected,
                         last_message_time>>
          /\ \A s \in Symbols :
                /\ get_latest_quote(DM', s) = get_latest_quote(DM, s)
                /\ get_latest_trade(DM', s) = get_latest_trade(DM, s)
                /\ get_latest_bar(DM', s) = get_latest_bar(DM, s)
                /\ get_current_price(DM', s) = get_current_price(DM, s)]_vars

\* the staleness path has switched the primary to polygon while a quote
\* is cached, callbacks are registered and were called, and both adapters
\* hold their subscriptions
C11_Witness ==
    /\ primary_source = "polygon" /\ failover_invoked
    /\ running["alpaca"]
    /\ get_latest_quote(DM, "AAPL") # None
    /\ quote_callbacks["AAPL"] # <<>> /\ invocations # <<>>
    /\ subscribed_symbols["alpaca"] = Symbols

\* C17 (ingest atomicity): in every state, that is wherever the other
\* adapter's listen task, the monitor task or stop() can run, every cached
\* value is the most recent ingest, the manager's last-message time is the
\* time of that ingest, and the callbacks were called for every ingest:
\* no state holds a new value whose callbacks were not dispatched.
C17_IngestAtomic ==
    /\ Called = expected_calls
    /\ \A s \in Symbols :
          /\ latest_quotes[s] = ghost_latest["quote"][s]
          /\ latest_trades[s] = ghost_latest["trade"][s]
          /\ latest_bars[s] = ghost_latest["bar"][s]
    /\ message_count > 0 => dm_last_message_time = last_ingest_time
    /\ Len(latency_samples) = message_count

\* both adapters have ingested, the callbacks were called for both
\* ingests, the monitor has run and stop() was called
C17_Witness ==
    /\ replaced_across /\ message_count = 2
    /\ Len(invocations) = 4
    /\ stops = 1 /\ stop_pc = "idle"
    /\ now > 1

\* C12 (callback isolation): whenever a callback raised during a dispatch,
\* of any stream, every callback registered after it for the same key was
\* still called with that value, every later ingest was dispatched to all
\* registered callbacks again, and the adapters' listen loops go on: both
\* tasks are listening and both running flags are set.
C12_CallbackIsolation ==
    \A k \in DOMAIN invocations :
        invocations[k].raised
        => /\ Len(invocations) = Len(expected_calls)
           /\ \A j \in k..Len(invocations) : Called[j] = expected_calls[j]
           /\ \A a \in Adapters :
                 /\ running[a]
                 /\ \A i \in DOMAIN listen_tasks[a] :
                       listen_tasks[a][i].st = "listening"

\* a raising callback registered before a returning one was called in two
\* dispatches, each time followed by the returning one
C12_Witness ==
    /\ Len(invocations) = 4
    /\ invocations[1].raised /\ ~invocations[2].raised
    /\ invocations[3].raised /\ ~invocations[4].raised
    /\ invocations[2].value = invocations[1].value
    /\ invocations[4].value = invocations[3].value

\* C13 (ingest dispatch order): the callbacks were called once per
\* registration, in registration order, for every ingest in ingest order,
\* and each of them found the value it was handed in the cache already.
C13_DispatchOrder ==
    /\ Called = expected_calls
    /\ \A k \in DOMAIN invocations :
          invocations[k].seen = invocations[k].value

\* one callback registered twice for the trades of AAPL was called twice
\* for one trade
C13_Witness ==
    /\ trade_callbacks["AAPL"] = <<"on_value", "on_value">>
    /\ Len(invocations) = 2
    /\ invocations[1].stream = "trade" /\ invocations[2].stream = "trade"
    /\ invocations[1].value = get_latest_trade(DM, "AAPL")
    /\ invocations[2].value = invocations[1].value

\* C14 (listen exit clears running): whenever a listen task of an adapter
\* ends, whatever ended it, the adapter's running flag is false afterwards.
C14_ExitClearsRunning ==
    [][\A a \in Adapters : \A i \in DOMAIN listen_tasks[a] :
          (listen_tasks[a][i].st # "done" /\ listen_tasks'[a][i].st = "done")
          => ~running'[a]]_vars

\* C15 (a malformed frame does not stop the loop): once an adapter handled
\* a malformed frame, its listen tasks have ended only on sockets that
\* closed, its running flag was cleared only by an abnormal close or by
\* stop(), no frame its socket received was lost, and every well-formed
\* frame handled since is cached.
C15_MalformedSkipped ==
    \A a \in Adapters :
        malformed_at[a] # 0
        => /\ \A i \in DOMAIN listen_tasks[a] :
                 listen_tasks[a][i].st = "done"
                 => ws_state[a][listen_tasks[a][i].ws] # "open"
           /\ \/ running[a] \/ stops > 0
              \/ ws_state[a][websocket[a]] = "closed_error"
           /\ Len(handled_seq[a]) + Len(inbox[a]) = arrivals[a]
           /\ \A s \in Symbols :
                 /\ get_latest_quote(DM, s) = ghost_latest["quote"][s]
                 /\ get_latest_trade(DM, s) = ghost_latest["trade"][s]

\* the first frame an adapter received was malformed and the well-formed
\* quote it received next is cached, its task still listening
C15_Witness ==
    \E a \in Adapters :
        /\ malformed_at[a] = 1
        /\ handled_seq[a] = <<1, 2>>
        /\ ghost_source["quote"]["AAPL"] = a
        /\ get_latest_quote(DM, "AAPL") # None
        /\ running[a]
        /\ listen_tasks[a][1].st = "listening"

\* C18 (per-adapter arrival order): each adapter has handled the frames
\* its socket received in the order of their arrival, without a gap, and
\* the frames it still holds are the following ones, in that order.
C18_ArrivalOrder ==
    \A a \in Adapters :
        /\ handled_seq[a] = [k \in 1..Len(handled_seq[a]) |-> k]
        /\ \A k \in DOMAIN inbox[a] :
              inbox[a][k].n = Len(handled_seq[a]) + k

\* two quotes of vendor A were received and handled, the cache holds the
\* second
C18_Witness ==
    /\ handled_seq["alpaca"] = <<1, 2>>
    /\ message_count = 2
    /\ get_latest_quote(DM, "AAPL") # None
    /\ get_latest_quote(DM, "AAPL").bid_price = 102

\* C19 (connect failure is a value): each connect of start() returns to
\* start() with a boolean, and the adapter's running flag then equals it:
\* false after a socket failure or a rejected authentication, true after a
\* success acknowledgement.
C19_ConnectIsValue ==
    [][/\ (start_pc = "connect_alpaca" /\ start_pc' # "connect_alpaca")
          => running'["alpaca"] = alpaca_connected'
       /\ (start_pc = "connect_polygon" /\ start_pc' # "connect_polygon")
          => running'["polygon"] = polygon_connected']_vars

\* C16 (stop cancels everything): when stop() returns, every monitor task
\* that start() created is cancelled, no listen task that start() created
\* is in its loop, and both adapters' running flags are false.
C16_StopCancelsEverything ==
    [][((stops' # stops \/ stop_pc # "idle") /\ stop_pc' = "idle")
       => /\ \A m \in DOMAIN monitors' : monitors'[m].st = "cancelled"
          /\ \A a \in Adapters : \A i \in DOMAIN listen_tasks'[a] :
                listen_tasks'[a][i].st \in {"created", "done"}
          /\ \A b \in Adapters : ~running'[b]]_vars

\* C20 (subscribe accumulates a union): each adapter's subscribed_symbols
\* is the union of the symbols of its successful subscribe_symbols calls;
\* a call on a connected adapter returned true, sent one subscribe frame
\* and left the set as the union of the set before and its symbols, which
\* is the set before when the symbols were in it already.
C20_SubscribeUnion ==
    \A a \in Adapters :
        LET last == subscribe_log[a].last
        IN /\ subscribed_symbols[a] = subscribe_log[a].union
           /\ last.connected
              => /\ last.result
                 /\ sent_frames[a] = last.sent_before + 1
                 /\ subscribed_symbols[a] = last.before \cup last.symbols
                 /\ last.symbols \subseteq last.before
                    => subscribed_symbols[a] = last.before
           /\ ~last.result
              => /\ sent_frames[a] = last.sent_before
                 /\ subscribed_symbols[a] = last.before

\* a connected adapter subscribed to one symbol, then to both, then to the
\* first again
C20_Witness ==
    \E a \in Adapters :
        /\ subscribe_calls[a] = 3
        /\ sent_frames[a] = 3
        /\ subscribe_log[a].last.connected
        /\ subscribe_log[a].last.symbols = {"AAPL"}
        /\ subscribe_log[a].last.before = {"AAPL", "TSLA"}
        /\ subscribed_symbols[a] = {"AAPL", "TSLA"}

\* C21 (disconnect is idempotent): in every state of an adapter (never
\* connected, connected, listen loop exited, disconnected) disconnect
\* leaves the running flag false and a second call right after it changes
\* nothing; after a disconnect the flag is false and the socket is not
\* open until the next connect.
C21_DisconnectIdempotent ==
    \A a \in Adapters :
        /\ ~disconnect(SV, a).running[a]
        /\ disconnect(disconnect(SV, a), a) = disconnect(SV, a)
        /\ (disconnects[a].calls > 0 /\ disconnects[a].ws = websocket[a])
           => /\ ~running[a]
              /\ websocket[a] # 0 => ws_state[a][websocket[a]] # "open"
              /\ disconnect(SV, a) = SV

\* an adapter that was connected and listening was disconnected twice in
\* a row, the second call changing nothing
C21_Witness ==
    \E a \in Adapters :
        /\ disconnects[a].calls = 2
        /\ disconnects[a].unchanged
        /\ disconnects[a].ws = websocket[a]
        /\ websocket[a] # 0
        /\ ws_state[a][websocket[a]] = "closed_ok"
        /\ Len(listen_tasks[a]) = 1
        /\ listen_tasks[a][1] = [ws |-> websocket[a], st |-> "done"]

\* C28 (operations on an unconnected adapter): a subscribe_symbols call on
\* an adapter whose running flag was false, or whose send failed, returned
\* false, sent no frame and left subscribed_symbols as it was; a listen
\* task that starts on an adapter whose running flag is false ends at
\* once, changing nothing else, and a task that ended so never listened.
C28_Unconnected ==
    \A a \in Adapters :
        LET last == subscribe_log[a].last
        IN /\ (subscribe_calls[a] > 0 /\ (~last.running \/ ~last.connected))
              => /\ ~last.result
                 /\ sent_frames[a] = last.sent_before
                 /\ subscribed_symbols[a] = last.before
           /\ \A i \in DOMAIN listen_tasks[a] :
                 (listen_tasks[a][i].st = "created" /\ ~running[a])
                 => ListenEnter(SV, a, i) =
                        [SV EXCEPT !.listen_tasks[a][i].st = "done"]

\* an adapter that had connected and was disconnected: its subscribe
\* returned false and its listen task ended without entering the loop
C28_Witness ==
    \E a \in Adapters :
        /\ websocket[a] # 0
        /\ disconnects[a].calls > 0
        /\ subscribe_calls[a] > 0
        /\ ~subscribe_log[a].last.running
        /\ ~subscribe_log[a].last.result
        /\ Len(listen_tasks[a]) = 1
        /\ listen_tasks[a][1] = [ws |-> 0, st |-> "done"]

\* C22 (absent, not error): get_latest_quote, get_latest_trade and
\* get_latest_bar called for a (symbol, type) of which no value was ever
\* ingested return None, and a call changes nothing in the manager, the
\* adapters or the service.
C22_AbsentNotError ==
    [][(query_result' # query_result
        /\ query_result'.op \in {"quote", "trade", "bar"})
       => /\ ghost_latest'[query_result'.op][query_result'.symbol] = None
             => query_result'.value = None
          /\ UNCHANGED <<dmVars, adVars, svcVars>>]_vars

\* a quote of AAPL is cached and the query for the trades of TSLA, of
\* which none was ingested, returned None
C22_Witness ==
    /\ query_result.op = "trade"
    /\ query_result.symbol = "TSLA"
    /\ query_result.value = None
    /\ ghost_latest["trade"]["TSLA"] = None
    /\ get_latest_quote(DM, "AAPL") # None

\* C23 (empty latency stats): get_latency_stats called when no sample is
\* recorded returns a result in which average, minimum, maximum, count
\* and throughput are all present and all zero.
C23_EmptyStatsAllZero ==
    (query_result.op = "latency_stats" /\ query_result.samples = 0)
    => LET keys == {"avg_latency_ms", "min_latency_ms", "max_latency_ms",
                    "message_count", "messages_per_second"}
       IN /\ keys \subseteq DOMAIN query_result.value
          /\ \A k \in keys : query_result.value[k] = 0

\* the samples a buffer of MaxLatencySamples retains of those recorded
Retained(recorded) ==
    IF Len(recorded) <= MaxLatencySamples THEN recorded
    ELSE SubSeq(recorded, Len(recorded) - MaxLatencySamples + 1,
                Len(recorded))

\* C24 (bounded latency buffer): the buffer never holds more than
\* MaxLatencySamples samples; it holds the most recent ones of those
\* recorded, in the order they were recorded, and message_count is the
\* number of all samples recorded.
C24_BoundedBuffer ==
    /\ Len(latency_samples) <= MaxLatencySamples
    /\ latency_samples = Retained(all_samples)
    /\ message_count = Len(all_samples)

\* more samples were recorded than the buffer holds: the buffer is full
\* and starts after the evicted ones
C24_Witness ==
    /\ Len(all_samples) >= MaxLatencySamples + 2
    /\ Len(latency_samples) = MaxLatencySamples
    /\ message_count = Len(all_samples)
    /\ latency_samples[MaxLatencySamples] = all_samples[Len(all_samples)]
    /\ latency_samples[1] = all_samples[Len(all_samples) - MaxLatencySamples + 1]

\* C25 (cache never forgets): no step of the service (an ingest, a
\* failover, the exit of a listen loop, a disconnect, stop) makes
\* get_latest_quote, get_latest_trade, get_latest_bar or get_current_price
\* return None for a symbol for which it returned a value before.
C25_CacheNeverForgets ==
    [][\A s \in Symbols :
          /\ get_latest_quote(DM, s) # None
             => get_latest_quote(DM', s) # None
          /\ get_latest_trade(DM, s) # None
             => get_latest_trade(DM', s) # None
          /\ get_latest_bar(DM, s) # None
             => get_latest_bar(DM', s) # None
          /\ get_current_price(DM, s) # None
             => get_current_price(DM', s) # None]_vars

\* a quote was ingested, the feeds went stale and the primary failed
\* over, both listen loops have exited and stop() has returned: the quote
\* and the price are still there
C25_Witness ==
    /\ ghost_latest["quote"]["AAPL"] # None
    /\ get_latest_quote(DM, "AAPL") # None
    /\ get_current_price(DM, "AAPL") # None
    /\ primary_source = "polygon"
    /\ stops > 0 /\ stop_pc = "idle"
    /\ \A a \in Adapters : ~running[a] /\ listen_tasks[a][1].st = "done"

\* C26 (primary tracks a live adapter): when a monitor task has finished
\* a pass of its loop and sleeps, primary_source names an adapter whose
\* running flag is true if there is one.
C26_PrimaryLive ==
    [][(\E m \in DOMAIN monitors :
           /\ m \in DOMAIN monitors'
           /\ monitors'[m] # monitors[m]
           /\ monitors'[m].st = "sleeping")
       => ((\E a \in Adapters : running'[a]) => running'[primary_source'])]_vars

\* the first pass that finds the feeds stale: alpaca was the primary and
\* is running, polygon connected but its listen loop has exited; the
\* failover selected polygon and the pass ended on alpaca
C26_Witness ==
    /\ now = failover_timeout + 2
    /\ failover_invoked
    /\ \E m \in DOMAIN monitors :
          monitors[m] = [st |-> "sleeping", wake |-> now + 1]
    /\ polygon_connected /\ ~running["polygon"]
    /\ running["alpaca"]
    /\ primary_source = "alpaca"

\* C27 (single monitor): at most one monitor task is alive at any time,
\* and once stop() has cancelled the monitoring task no monitor task is
\* left that can still run a pass.
C27_SingleMonitor ==
    /\ Cardinality({m \in DOMAIN monitors :
                       monitors[m].st # "cancelled"}) <= 1
    /\ (monitoring_task # 0 /\ monitors[monitoring_task].st = "cancelled")
           => \A m \in DOMAIN monitors : monitors[m].st = "cancelled"

\* the well-formed events of an array frame, as the values they carry
RECURSIVE WellFormed(_)
WellFormed(data_list) ==
    IF data_list = <<>> THEN <<>>
    ELSE IF "malformed" \in DOMAIN Head(data_list)
            \/ PolygonThrows(Head(data_list))
         THEN WellFormed(Tail(data_list))
         ELSE PolygonCarriedEvent(Head(data_list))
                  \o WellFormed(Tail(data_list))

\* C30 (vendor-B array frames): when the Polygon adapter has handled an
\* array frame, every well-formed event of the array has been ingested,
\* also those before and after a malformed one: each is counted and the
\* trade cache holds the trade of the array.
C30_ArrayElements ==
    [][(/\ inbox["polygon"] # <<>>
        /\ inbox'["polygon"] = Tail(inbox["polygon"])
        /\ Len(handled_seq'["polygon"]) > Len(handled_seq["polygon"]))
       => LET wf == WellFormed(Head(inbox["polygon"]).data)
          IN /\ message_count' = message_count + Len(wf)
             /\ \A k \in DOMAIN wf :
                   wf[k].type = "trade"
                   => get_latest_trade(DM', wf[k].symbol) = wf[k].value]_vars

\* the values adapter a ingests from the frame its listen task handles
CarriedBy(a, data) ==
    IF a = "alpaca" THEN AlpacaCarried(data) ELSE PolygonCarried(data)

\* the callbacks registered under a key other than (type, symbol)
OtherCallbacks(type, symbol) ==
    UNION {{Registry(ty, s)[k] : k \in DOMAIN Registry(ty, s)} :
             <<ty, s>> \in {k \in {"quote", "trade", "bar", "order"}
                                     \X Symbols :
                               /\ k[1] # type
                                  \/ (type # "order" /\ k[2] # symbol)}}

\* C29 (per-key isolation of an ingest): when a frame has been handled,
\* the cached value of every key the frame carries no value for is
\* unchanged, and every callback called was registered under the key of
\* a value the frame carries, none under another symbol or stream; an
\* order update changes no cache.
C29_KeyIsolation ==
    [][\A a \in Adapters :
          (/\ inbox[a] # <<>>
           /\ inbox'[a] = Tail(inbox[a])
           /\ Len(handled_seq'[a]) > Len(handled_seq[a]))
          => LET carried == CarriedBy(a, Head(inbox[a]).data)
                 has(type, s) == \E k \in DOMAIN carried :
                                    /\ carried[k].type = type
                                    /\ carried[k].symbol = s
             IN /\ \A s \in Symbols :
                      /\ ~has("quote", s)
                           => get_latest_quote(DM', s) = get_latest_quote(DM, s)
                      /\ ~has("trade", s)
                           => get_latest_trade(DM', s) = get_latest_trade(DM, s)
                      /\ ~has("bar", s)
                           => get_latest_bar(DM', s) = get_latest_bar(DM, s)
                /\ Len(invocations') >= Len(invocations)
                /\ \A n \in (Len(invocations) + 1)..Len(invocations') :
                      \E k \in DOMAIN carried :
                         /\ invocations'[n].stream = carried[k].type
                         /\ invocations'[n].value = carried[k].value
                         /\ invocations'[n].cb \notin
                               OtherCallbacks(carried[k].type,
                                              carried[k].symbol)]_vars

\* a quote of AAPL was ingested, then a trade of TSLA: the quote is still
\* cached, no other key has a value, and the callbacks called are those
\* of the two keys
C29_Witness ==
    /\ Len(invocations) = 2
    /\ invocations[1].cb = "on_quote_AAPL"
    /\ invocations[2].cb = "on_trade_TSLA"
    /\ get_latest_quote(DM, "AAPL") # None
    /\ get_latest_trade(DM, "TSLA") # None
    /\ get_latest_quote(DM, "TSLA") = None
    /\ get_latest_trade(DM, "AAPL") = None
    /\ \A s \in Symbols : get_latest_bar(DM, s) = None
    /\ Len(handled_seq["alpaca"]) = 2

====
